---- MODULE Spec2Model ----
(***************************************************************************)
(* A model of the real-time duplex session of the voice-driven whiteboard: *)
(* the tool-call dispatcher of the useGeminiLive hook (onToolCall), the    *)
(* board state holder of the Whiteboard component, the whiteboard tools    *)
(* (processToolCall, moveTaskByText, getWhiteboardInfo,                    *)
(* processWhiteboardToolCall), the AudioRecorder, the capture worklet and  *)
(* the session event handlers of the hook.                                 *)
(*                                                                         *)
(* Texts are sequences of one-character strings, so that toLowerCase,      *)
(* trim, split and includes are computed and not assumed.                  *)
(***************************************************************************)
EXTENDS Integers, Sequences, FiniteSets, TLC

VARIABLES
  data,        \* Whiteboard: the React state `data` (the committed snapshot)
  dataRef,     \* Whiteboard: dataRef.current, what getCurrentWhiteboardData returns
  pendingData, \* Whiteboard: setData values queued and not yet rendered
  effectDue,   \* Whiteboard: a render happened whose useEffect has not yet run
  handler,     \* useGeminiLive: the running onToolCall invocation
  session,     \* the live session client (status, delivered and answered ids, sent responses)
  state,       \* useGeminiLive: GeminiLiveState (isConnected, isRecording, isSpeaking)
  streamer,    \* the playback streamer (scheduled chunks, stop calls)
  turn,        \* the remote turn the session is delivering (events of the current turn)
  recorder,    \* AudioRecorder fields and its start() attempts in flight
  worklet,     \* AudioProcessingWorklet: bufferWriteIndex and what it emitted
  mBoard,      \* the board the matching algorithm is applied to directly
  mLast,       \* the last direct move_task: its arguments and outcome
  hook         \* useGeminiLive: clientRef, the clients it created, calls in flight

boardVars == <<data, dataRef, pendingData, effectDue, handler, session>>

matchVars == <<mBoard, mLast>>

turnVars == <<state, streamer, turn>>

vars == <<data, dataRef, pendingData, effectDue, handler, session, state,
          streamer, turn, recorder, worklet, mBoard, mLast, hook>>

----------------------------------------------------------------------------
(* Strings *)

T_IntegratePaymentGateway == <<"I","n","t","e","g","r","a","t","e"," ","p","a","y","m","e","n","t"," ","g","a","t","e","w","a","y">>
T_WriteUnitTests == <<"W","r","i","t","e"," ","u","n","i","t"," ","t","e","s","t","s">>
T_PaymentGatewayIntegration == <<"p","a","y","m","e","n","t"," ","g","a","t","e","w","a","y"," ","i","n","t","e","g","r","a","t","i","o","n">>
T_FixApi == <<"F","i","x"," ","a","p","i">>
T_Api == <<"a","p","i">>
T_ApiDone == <<"a","p","i"," ","d","o","n","e">>
T_Docs == <<"d","o","c","s">>
T_ApiDocs == <<"a","p","i"," ","d","o","c","s">>
T_FixAnApi == <<"F","i","x"," ","a","n"," ","a","p","i">>
T_Sprint == <<"s","p","r","i","n","t">>
T_NewNote == <<"N","e","w"," ","n","o","t","e">>
K_done == <<"d","o","n","e">>
K_completed == <<"c","o","m","p","l","e","t","e","d">>
K_finished == <<"f","i","n","i","s","h","e","d">>
K_complete == <<"c","o","m","p","l","e","t","e">>
K_working == <<"w","o","r","k","i","n","g">>
K_progress == <<"p","r","o","g","r","e","s","s">>
K_doing == <<"d","o","i","n","g">>
K_started == <<"s","t","a","r","t","e","d">>
K_current == <<"c","u","r","r","e","n","t">>
K_standup == <<"s","t","a","n","d","u","p">>
K_summary == <<"s","u","m","m","a","r","y">>
K_sprintAlpha == <<"s","p","r","i","n","t"," ","a","l","p","h","a">>

\* A field an object does not have (undefined).  No text is a one-element
\* sequence holding a word, so it differs from every text.
Undefined == <<"undefined">>

UpperToLower ==
  [c \in {"A","B","C","D","E","F","G","H","I","J","K","L","M","N","O","P","Q",
          "R","S","T","U","V","W","X","Y","Z"} |->
     CASE c = "A" -> "a" [] c = "B" -> "b" [] c = "C" -> "c" [] c = "D" -> "d"
       [] c = "E" -> "e" [] c = "F" -> "f" [] c = "G" -> "g" [] c = "H" -> "h"
       [] c = "I" -> "i" [] c = "J" -> "j" [] c = "K" -> "k" [] c = "L" -> "l"
       [] c = "M" -> "m" [] c = "N" -> "n" [] c = "O" -> "o" [] c = "P" -> "p"
       [] c = "Q" -> "q" [] c = "R" -> "r" [] c = "S" -> "s" [] c = "T" -> "t"
       [] c = "U" -> "u" [] c = "V" -> "v" [] c = "W" -> "w" [] c = "X" -> "x"
       [] c = "Y" -> "y" [] c = "Z" -> "z"]

toLowerCase(s) ==
  [i \in 1..Len(s) |-> IF s[i] \in DOMAIN UpperToLower THEN UpperToLower[s[i]] ELSE s[i]]

IsSpace(c) == c = " "

RECURSIVE trimStart(_)
trimStart(s) ==
  IF s # <<>> /\ IsSpace(Head(s)) THEN trimStart(Tail(s)) ELSE s

RECURSIVE trimEnd(_)
trimEnd(s) ==
  IF s # <<>> /\ IsSpace(s[Len(s)]) THEN trimEnd(SubSeq(s, 1, Len(s) - 1)) ELSE s

trim(s) == trimEnd(trimStart(s))

\* s.includes(t): t occurs in s as a contiguous run; the empty t occurs in every s.
includes(s, t) ==
  \E i \in 0..(Len(s) - Len(t)) : SubSeq(s, i + 1, i + Len(t)) = t

\* s.split(/\s+/): the pieces between maximal runs of white space.  The
\* empty string gives one empty piece, and a leading or trailing run gives
\* an empty first or last piece.
RECURSIVE splitFrom(_, _, _)
splitFrom(s, i, cur) ==
  IF i > Len(s) THEN <<cur>>
  ELSE IF IsSpace(s[i])
       THEN IF i > 1 /\ IsSpace(s[i - 1])
            THEN splitFrom(s, i + 1, cur)
            ELSE <<cur>> \o splitFrom(s, i + 1, <<>>)
       ELSE splitFrom(s, i + 1, Append(cur, s[i]))

split(s) == splitFrom(s, 1, <<>>)

Max(a, b) == IF a >= b THEN a ELSE b

Abs(a) == IF a >= 0 THEN a ELSE 0 - a

----------------------------------------------------------------------------
(* whiteboard-tools: column geometry *)

Columns == {"todo", "inprogress", "done"}

\* A variant of kanbanColumns with the origin of IN PROGRESS left of its
\* range.
kanbanColumnsShifted(column) ==
  IF column = "todo" THEN 100 ELSE IF column = "inprogress" THEN 400 ELSE 820

kanbanColumns(column) ==
  IF column = "todo" THEN 100 ELSE IF column = "inprogress" THEN 460 ELSE 820

generateElementPosition(index, column) ==
  [x |-> kanbanColumns(column), y |-> 180 + index * 90]

getCurrentColumn(task) ==
  IF task.x >= 60 /\ task.x <= 380 THEN "todo"
  ELSE IF task.x >= 420 /\ task.x <= 740 THEN "inprogress"
  ELSE IF task.x >= 780 /\ task.x <= 1100 THEN "done"
  ELSE "other"

columnColor(column) ==
  IF column = "todo" THEN "yellow" ELSE IF column = "inprogress" THEN "orange" ELSE "green"

----------------------------------------------------------------------------
(* whiteboard-tools: elements.  An element is a record                      *)
(*   [type, id, x, y, text, color];                                         *)
(* a field the object does not have is "" (id, color), Undefined (text) or  *)
(* NoNumber (x, y).                                                          *)

\* An absent number (undefined): !n holds of it, and every comparison with
\* it is false.
NoNumber == -1

\* !n of JavaScript: n is undefined or 0.
Falsy(n) == n = 0 \/ n = NoNumber

KnownTypes == {"sticky", "flow-node", "mermaid", "embed"}

\* (el as any).text?.toLowerCase().trim() || ""
textLowerOf(el) == IF el.text = Undefined THEN <<>> ELSE trim(toLowerCase(el.text))

----------------------------------------------------------------------------
(* whiteboard-tools: moveTaskByText.  A score is a fraction <<num, den>>,   *)
(* den > 0, since matchingWords.length / Math.max(..) * 60 need not be an   *)
(* integer.                                                                  *)

ScoreGt(a, b) == a[1] * b[2] > b[1] * a[2]

ScoreGe(a, b) == a[1] * b[2] >= b[1] * a[2]

\* searchWords: the words of the search text longer than 2 characters.
searchWordsOf(searchTextLower) ==
  SelectSeq(split(searchTextLower), LAMBDA word : Len(word) > 2)

\* The words of the search text for which some task word includes it or is
\* included in it.
matchingWordsOf(searchWords, taskWords) ==
  SelectSeq(searchWords,
            LAMBDA searchWord :
              \E k \in 1..Len(taskWords) :
                 includes(taskWords[k], searchWord) \/ includes(searchWord, taskWords[k]))

\* A variant of baseScore with a word-overlap weight of 90.
baseScoreWeight90(searchTextLower, taskTextLower) ==
  LET searchWords == searchWordsOf(searchTextLower)
      taskWords == split(taskTextLower)
      matchingWords == matchingWordsOf(searchWords, taskWords)
  IN IF taskTextLower = searchTextLower THEN <<100, 1>>
     ELSE IF includes(taskTextLower, searchTextLower) THEN <<80, 1>>
     ELSE IF includes(searchTextLower, taskTextLower) THEN <<70, 1>>
     ELSE IF Len(matchingWords) > 0
          THEN <<Len(matchingWords) * 90, Max(Len(searchWords), Len(taskWords))>>
          ELSE <<0, 1>>

baseScore(searchTextLower, taskTextLower) ==
  LET searchWords == searchWordsOf(searchTextLower)
      taskWords == split(taskTextLower)
      matchingWords == matchingWordsOf(searchWords, taskWords)
  IN IF taskTextLower = searchTextLower THEN <<100, 1>>
     ELSE IF includes(taskTextLower, searchTextLower) THEN <<80, 1>>
     ELSE IF includes(searchTextLower, taskTextLower) THEN <<70, 1>>
     ELSE IF Len(matchingWords) > 0
          THEN <<Len(matchingWords) * 60, Max(Len(searchWords), Len(taskWords))>>
          ELSE <<0, 1>>

\* The score of one candidate: the base score plus 10 when the task is not
\* already in the target column.
candidateScore(el, searchTextLower, targetColumn) ==
  LET b == baseScore(searchTextLower, textLowerOf(el))
  IN IF getCurrentColumn(el) # targetColumn THEN <<b[1] + 10 * b[2], b[2]>> ELSE b

\* Sticky tasks, summary notes (y >= 650) excluded.
allStickyTasks(elements) ==
  SelectSeq(elements, LAMBDA el : el.type = "sticky" /\ el.y # NoNumber /\ el.y < 650)

candidatesWithScores(elements, taskText, targetColumn) ==
  LET searchTextLower == trim(toLowerCase(taskText))
      tasks == allStickyTasks(elements)
      scored == [k \in 1..Len(tasks) |->
                   [task |-> tasks[k],
                    score |-> candidateScore(tasks[k], searchTextLower, targetColumn),
                    currentColumn |-> getCurrentColumn(tasks[k])]]
  IN SelectSeq(scored, LAMBDA candidate : ScoreGt(candidate.score, <<20, 1>>))

\* candidatesWithScores.sort((a, b) => b.score - a.score): a stable sort,
\* highest score first (insertion from the right keeps equal scores in order).
\* A variant of insertByScore that puts a candidate behind those of equal
\* score (a sort that is not stable).
RECURSIVE insertByScoreLast(_, _)
insertByScoreLast(c, sorted) ==
  IF sorted = <<>> THEN <<c>>
  ELSE IF ScoreGt(c.score, Head(sorted).score) THEN <<c>> \o sorted
  ELSE <<Head(sorted)>> \o insertByScoreLast(c, Tail(sorted))

RECURSIVE insertByScore(_, _)
insertByScore(c, sorted) ==
  IF sorted = <<>> THEN <<c>>
  ELSE IF ScoreGe(c.score, Head(sorted).score) THEN <<c>> \o sorted
  ELSE <<Head(sorted)>> \o insertByScore(c, Tail(sorted))

RECURSIVE sortByScore(_)
sortByScore(cands) ==
  IF cands = <<>> THEN <<>>
  ELSE insertByScore(Head(cands), sortByScore(Tail(cands)))

\* Elements counted as already in the target column (the moved one excluded).
tasksInTargetColumn(elements, movedId, targetX) ==
  SelectSeq(elements,
            LAMBDA el : el.id # movedId /\ el.x # NoNumber /\ el.y # NoNumber
                        /\ Abs(el.x - targetX) < 50 /\ el.y >= 180 /\ el.y < 650)

\* A variant of moveTaskByText without the check of the current column.
moveTaskByTextAlways(elements, taskText, targetColumn) ==
  LET sorted == sortByScore(candidatesWithScores(elements, taskText, targetColumn))
  IN IF sorted = <<>>
     THEN [moved |-> FALSE, found |-> FALSE, elements |-> elements,
           best |-> "", score |-> <<0, 1>>]
     ELSE LET bestCandidate == sorted[1]
              taskToMove == bestCandidate.task
              targetX == generateElementPosition(0, targetColumn).x
              newY == 180 + Len(tasksInTargetColumn(elements, taskToMove.id, targetX)) * 90
          IN [moved |-> TRUE, found |-> TRUE,
              elements |->
                [k \in 1..Len(elements) |->
                   IF elements[k].id = taskToMove.id
                   THEN [elements[k] EXCEPT !.x = targetX, !.y = newY,
                                            !.color = columnColor(targetColumn)]
                   ELSE elements[k]],
              best |-> taskToMove.id, score |-> bestCandidate.score]

\* A variant of moveTaskByText that repositions every element that has the
\* text of the selected task.
moveTaskByTextSameText(elements, taskText, targetColumn) ==
  LET sorted == sortByScore(candidatesWithScores(elements, taskText, targetColumn))
  IN IF sorted = <<>>
     THEN [moved |-> FALSE, found |-> FALSE, elements |-> elements,
           best |-> "", score |-> <<0, 1>>]
     ELSE LET bestCandidate == sorted[1]
              taskToMove == bestCandidate.task
              targetX == generateElementPosition(0, targetColumn).x
              newY == 180 + Len(tasksInTargetColumn(elements, taskToMove.id, targetX)) * 90
          IN IF bestCandidate.currentColumn = targetColumn
             THEN [moved |-> FALSE, found |-> TRUE, elements |-> elements,
                   best |-> taskToMove.id, score |-> bestCandidate.score]
             ELSE [moved |-> TRUE, found |-> TRUE,
                   elements |->
                     [k \in 1..Len(elements) |->
                        IF elements[k].text = taskToMove.text
                        THEN [elements[k] EXCEPT !.x = targetX, !.y = newY,
                                                 !.color = columnColor(targetColumn)]
                        ELSE elements[k]],
                   best |-> taskToMove.id, score |-> bestCandidate.score]

\* moveTaskByText.  The code returns currentData itself when nothing is
\* moved and a new object otherwise; the caller tells the two apart by
\* reference (moveResult !== currentData), which is the field moved.
moveTaskByText(elements, taskText, targetColumn) ==
  LET sorted == sortByScore(candidatesWithScores(elements, taskText, targetColumn))
  IN IF sorted = <<>>
     THEN [moved |-> FALSE, found |-> FALSE, elements |-> elements,
           best |-> "", score |-> <<0, 1>>]
     ELSE LET bestCandidate == sorted[1]
              taskToMove == bestCandidate.task
              targetX == generateElementPosition(0, targetColumn).x
              newY == 180 + Len(tasksInTargetColumn(elements, taskToMove.id, targetX)) * 90
          IN IF bestCandidate.currentColumn = targetColumn
             THEN [moved |-> FALSE, found |-> TRUE, elements |-> elements,
                   best |-> taskToMove.id, score |-> bestCandidate.score]
             ELSE [moved |-> TRUE, found |-> TRUE,
                   elements |->
                     [k \in 1..Len(elements) |->
                        IF elements[k].id = taskToMove.id
                        THEN [elements[k] EXCEPT !.x = targetX, !.y = newY,
                                                 !.color = columnColor(targetColumn)]
                        ELSE elements[k]],
                   best |-> taskToMove.id, score |-> bestCandidate.score]

----------------------------------------------------------------------------
(* whiteboard-tools: getWhiteboardInfo *)

inColumnRange(el, column) ==
  IF column = "todo" THEN el.x >= 60 /\ el.x <= 380
  ELSE IF column = "inprogress" THEN el.x >= 420 /\ el.x <= 740
  ELSE IF column = "done" THEN el.x >= 780 /\ el.x <= 1100
  ELSE TRUE

\* getWhiteboardInfo: the stickies of the column (all of them for "all" or
\* a name that is no column) whose text includes the query, case folded.
\* task.text.toLowerCase() throws on a sticky that has no text.
getWhiteboardInfo(elements, query, column) ==
  LET allTasks == SelectSeq(elements, LAMBDA el : el.type = "sticky")
      filteredTasks == SelectSeq(allTasks, LAMBDA el : inColumnRange(el, column))
      queryLower == toLowerCase(query)
  IN IF \E k \in 1..Len(filteredTasks) : filteredTasks[k].text = Undefined
     THEN [threw |-> TRUE, matchingTasks |-> <<>>, totalTasks |-> Len(allTasks)]
     ELSE [threw |-> FALSE,
           matchingTasks |->
             SelectSeq(filteredTasks,
                       LAMBDA task : includes(toLowerCase(task.text), queryLower)),
           totalTasks |-> Len(allTasks)]

----------------------------------------------------------------------------
(* whiteboard-tools: processWhiteboardToolCall and validateAndFixElement *)

determineKanbanColumn(text) ==
  LET lowerText == toLowerCase(text)
  IN IF \/ includes(lowerText, K_done) \/ includes(lowerText, K_completed)
        \/ includes(lowerText, K_finished) \/ includes(lowerText, K_complete)
     THEN "done"
     ELSE IF \/ includes(lowerText, K_working) \/ includes(lowerText, K_progress)
             \/ includes(lowerText, K_doing) \/ includes(lowerText, K_started)
             \/ includes(lowerText, K_current)
          THEN "inprogress"
          ELSE "todo"

\* `element-${Date.now()}`, the clock read being now.
generatedId(now) == IF now = 0 THEN "element-0" ELSE "element-1"

\* validateAndFixElement of an element of a known type: a new object with
\* the defaults filled in.  Only a sticky has text and color.
validateAndFixElement(element, now) ==
  [type |-> element.type,
   id |-> IF element.id = "" THEN generatedId(now) ELSE element.id,
   x |-> IF Falsy(element.x) THEN 100 ELSE element.x,
   y |-> IF Falsy(element.y) THEN 100 ELSE element.y,
   text |-> IF element.type # "sticky" THEN Undefined
            ELSE IF element.text = Undefined \/ element.text = <<>> THEN T_NewNote
            ELSE element.text,
   color |-> IF element.type # "sticky" THEN ""
             ELSE IF element.color = "" THEN "yellow" ELSE element.color]

\* validateAndFixElement throws on any other type tag.
validateThrows(element) == element.type \notin KnownTypes

\* element.text && (its lower case includes "standup", "summary" or "sprint alpha")
isSummaryText(text) ==
  /\ text # Undefined
  /\ text # <<>>
  /\ \/ includes(toLowerCase(text), K_standup)
     \/ includes(toLowerCase(text), K_summary)
     \/ includes(toLowerCase(text), K_sprintAlpha)

elementsInColumn(elements, columnX) ==
  SelectSeq(elements,
            LAMBDA el : el.x # NoNumber /\ el.y # NoNumber
                        /\ Abs(el.x - columnX) < 50 /\ el.y >= 180 /\ el.y < 650)

\* case "add": what the map callback does to the argument element itself
\* (element.x = .., element.y = .., element.color = ..), index counted from 0.
positionForAdd(currentElements, element, index) ==
  IF element.type = "sticky" /\ (Falsy(element.x) \/ Falsy(element.y))
  THEN IF isSummaryText(element.text)
       THEN [element EXCEPT !.x = 450, !.y = 650,
                            !.color = IF element.color = "" THEN "blue" ELSE element.color]
       ELSE LET column == IF element.text # Undefined /\ element.text # <<>>
                          THEN determineKanbanColumn(element.text) ELSE "todo"
                position == generateElementPosition(
                              Len(elementsInColumn(currentElements, kanbanColumns(column))),
                              column)
            IN [element EXCEPT !.x = position.x, !.y = position.y,
                               !.color = IF element.color = "" THEN columnColor(column)
                                         ELSE element.color]
  ELSE IF Falsy(element.x) \/ Falsy(element.y)
       THEN LET position == generateElementPosition(Len(currentElements) + index, "todo")
            IN [element EXCEPT !.x = position.x, !.y = position.y]
       ELSE element

\* case "replace": position of an element given without one.
positionForReplace(element, index) ==
  IF Falsy(element.x) \/ Falsy(element.y)
  THEN LET position == generateElementPosition(index, "todo")
       IN [element EXCEPT !.x = position.x, !.y = position.y]
  ELSE element

\* { ...existing, ...validateAndFixElement(update) }
mergeUpdate(existing, fixed) ==
  [type |-> fixed.type, id |-> fixed.id, x |-> fixed.x, y |-> fixed.y,
   text |-> IF fixed.type = "sticky" THEN fixed.text ELSE existing.text,
   color |-> IF fixed.type = "sticky" THEN fixed.color ELSE existing.color]

\* elements.find((el) => el.id === id): the index of the first, 0 if none.
findById(elements, id) ==
  IF \E k \in 1..Len(elements) : elements[k].id = id
  THEN CHOOSE k \in 1..Len(elements) :
         /\ elements[k].id = id
         /\ \A j \in 1..(k - 1) : elements[j].id # id
  ELSE 0

\* processWhiteboardToolCall(currentData, toolCall) with toolCall =
\* [action, hasElements, elements, elementIds].  The result holds the new
\* snapshot (elements), whether the call threw, and argElements: the
\* elements of toolCall as the call left them, since "add" and "replace"
\* assign to the argument objects.
processWhiteboardToolCall(currentElements, toolCall, now) ==
  LET given == toolCall.elements
      positioned ==
        [k \in 1..Len(given) |->
           IF toolCall.action = "add" THEN positionForAdd(currentElements, given[k], k - 1)
           ELSE IF toolCall.action = "replace" THEN positionForReplace(given[k], k - 1)
           ELSE given[k]]
      fixed == [k \in 1..Len(given) |-> validateAndFixElement(positioned[k], now)]
      unchanged == [threw |-> FALSE, elements |-> currentElements, argElements |-> given]
  IN IF toolCall.action \in {"add", "replace"}
     THEN IF ~toolCall.hasElements THEN unchanged
          ELSE IF \E k \in 1..Len(given) : validateThrows(given[k])
               THEN [threw |-> TRUE, elements |-> currentElements, argElements |-> positioned]
               ELSE [threw |-> FALSE,
                     elements |-> IF toolCall.action = "add"
                                  THEN currentElements \o fixed ELSE fixed,
                     argElements |-> positioned]
     ELSE IF toolCall.action = "update"
     THEN IF ~toolCall.hasElements THEN unchanged
          ELSE IF \E k \in 1..Len(currentElements) :
                     /\ findById(given, currentElements[k].id) # 0
                     /\ validateThrows(given[findById(given, currentElements[k].id)])
               THEN [threw |-> TRUE, elements |-> currentElements, argElements |-> given]
               ELSE [threw |-> FALSE,
                     elements |->
                       [k \in 1..Len(currentElements) |->
                          LET u == findById(given, currentElements[k].id)
                          IN IF u = 0 THEN currentElements[k]
                             ELSE mergeUpdate(currentElements[k], fixed[u])],
                     argElements |-> given]
     ELSE IF toolCall.action = "remove"
     THEN [threw |-> FALSE,
           elements |-> SelectSeq(currentElements,
                                  LAMBDA el : el.id \notin toolCall.elementIds),
           argElements |-> given]
     ELSE unchanged

----------------------------------------------------------------------------
(* whiteboard-tools: processToolCall.  A tool call is                        *)
(*   [name, id, args], args = [action, hasElements, elements, elementIds,   *)
(*                             query, column, taskText, targetColumn].       *)
(* A response is [success, kind, ids]: kind tells the payloads apart and ids *)
(* are the tasks it lists (matchingTasks, taskMoved).                        *)

jiraToolNames ==
  {"sync_jira_board", "update_jira_from_standup", "get_team_workload", "create_standup_summary"}

idsOf(elements) == [k \in 1..Len(elements) |-> elements[k].id]

\* processToolCall for the tools that touch no network.  hasNewData tells
\* whether the result carries newData.
processToolCall(currentElements, toolName, toolArgs, now) ==
  LET none == [threw |-> FALSE, hasNewData |-> FALSE, newData |-> <<>>,
               argElements |-> toolArgs.elements,
               response |-> [success |-> FALSE, kind |-> "unknown_tool", ids |-> <<>>]]
  IN IF toolName = "get_whiteboard_info"
     THEN LET info == getWhiteboardInfo(currentElements, toolArgs.query, toolArgs.column)
          IN IF info.threw
             THEN [none EXCEPT !.threw = TRUE]
             ELSE [none EXCEPT !.response = [success |-> TRUE, kind |-> "info",
                                             ids |-> idsOf(info.matchingTasks)]]
     ELSE IF toolName = "move_task"
     THEN LET moveResult == moveTaskByText(currentElements, toolArgs.taskText,
                                           toolArgs.targetColumn)
              wasTaskMoved == moveResult.moved
          IN IF wasTaskMoved
             THEN [none EXCEPT !.hasNewData = TRUE, !.newData = moveResult.elements,
                               !.response = [success |-> TRUE, kind |-> "moved",
                                             ids |-> <<moveResult.best>>]]
             ELSE [none EXCEPT !.response = [success |-> FALSE, kind |-> "not_moved",
                                             ids |-> <<>>]]
     ELSE IF toolName = "update_whiteboard"
     THEN LET updated == processWhiteboardToolCall(currentElements, toolArgs, now)
          IN IF updated.threw
             THEN [none EXCEPT !.threw = TRUE, !.argElements = updated.argElements]
             ELSE [none EXCEPT !.hasNewData = TRUE, !.newData = updated.elements,
                               !.argElements = updated.argElements,
                               !.response = [success |-> TRUE, kind |-> "updated",
                                             ids |-> <<>>]]
     ELSE none

\* processToolCall for get_team_workload: processJiraToolCall awaits the
\* proxy and turns every failure into a success:false response; it returns
\* no newData and never throws.
processJiraWorkload(toolArgs, fetchOk) ==
  [threw |-> FALSE, hasNewData |-> FALSE, newData |-> <<>>,
   argElements |-> toolArgs.elements,
   response |-> IF fetchOk THEN [success |-> TRUE, kind |-> "workload", ids |-> <<>>]
                ELSE [success |-> FALSE, kind |-> "error", ids |-> <<>>]]

----------------------------------------------------------------------------
(* Whiteboard: the state holder behind window.getCurrentWhiteboardData,      *)
(* window.setWhiteboardData and window.updateWhiteboardFromGemini.           *)

\* getCurrentWhiteboardData(): dataRef.current
getCurrentWhiteboardData(ref) == ref

\* setWhiteboardData(newData): setData(newData), applied at the next render.
setWhiteboardData(pending, newData) == Append(pending, newData)

\* updateWhiteboardFromGemini(updates): when updates.elements is there,
\* setData({...dataRef.current, elements: updates.elements}).
updateWhiteboardFromGemini(pending, hasElements, argElements) ==
  IF hasElements THEN Append(pending, argElements) ELSE pending

----------------------------------------------------------------------------
(* The live session client.  Its source is not part of the repository        *)
(* files at hand: sendToolResponse follows the specification of the client.  *)

\* sendToolResponse(message): every id of the message must be the id of a
\* delivered ToolCall that has no response yet, on a connected session.
\* Otherwise it is a ProtocolViolation: nothing is sent, the session is
\* aborted and the error is raised to the caller.
responseAccepted(sess, responses) ==
  /\ sess.status = "connected"
  /\ \A k \in 1..Len(responses) :
       /\ responses[k].id \in sess.delivered
       /\ responses[k].id \notin sess.answered
       /\ \A j \in 1..(k - 1) : responses[j].id # responses[k].id

\* A variant of sendToolResponse that sends whatever it is given.
sendToolResponseUnchecked(sess, responses) ==
  [threw |-> FALSE,
   session |-> [sess EXCEPT !.sent = sess.sent \o responses,
                            !.answered = sess.answered \cup
                                {responses[k].id : k \in 1..Len(responses)}]]

sendToolResponse(sess, responses) ==
  IF responseAccepted(sess, responses)
  THEN [threw |-> FALSE,
        session |-> [sess EXCEPT !.sent = sess.sent \o responses,
                                 !.answered = sess.answered \cup
                                     {responses[k].id : k \in 1..Len(responses)}]]
  ELSE [threw |-> TRUE,
        session |-> [sess EXCEPT !.status = "error", !.lastError = "ProtocolViolation",
                                 !.violations = sess.violations \o idsOf(responses)]]

----------------------------------------------------------------------------
(* useGeminiLive: onToolCall.  The handler is an async function: it runs    *)
(* from one await to the next without interruption.  One run is: the code    *)
(* after `await processToolCall(..)` of call i (response, publication, the   *)
(* catch blocks), then the start of call i + 1 (reading the snapshot and      *)
(* calling processToolCall).                                                  *)

errorResponse == [success |-> FALSE, kind |-> "error", ids |-> <<>>]

functionResponse(call, response) ==
  [id |-> call.id, name |-> call.name, response |-> response]

\* The outer catch: one message with a success:false response for every
\* call of the batch.  The handler returns ("failed"), or its promise is
\* rejected when this send throws as well ("rejected").
outerCatch(sess, batch) ==
  LET o == sendToolResponse(sess, [k \in 1..Len(batch) |->
                                     functionResponse(batch[k], errorResponse)])
  IN [outcome |-> IF o.threw THEN "rejected" ELSE "failed", session |-> o.session]

\* The per-call catch: a success:false response for the call; a throw in
\* it reaches the outer catch.
innerCatch(sess, batch, call) ==
  LET c == sendToolResponse(sess, <<functionResponse(call, errorResponse)>>)
  IN IF c.threw THEN outerCatch(c.session, batch)
     ELSE [outcome |-> "next", session |-> c.session]

\* The publication of result.newData: setWhiteboardData for move_task and
\* sync_jira_board, updateWhiteboardFromGemini(call.args) for the others.
publish(pending, call, result) ==
  IF call.name \in {"move_task", "sync_jira_board"}
  THEN setWhiteboardData(pending, result.newData)
  ELSE updateWhiteboardFromGemini(pending, call.args.hasElements, result.argElements)

\* A variant of afterAwait that goes on to the next call without sending
\* the response or publishing the result.
afterAwaitSilent(sess, pending, batch, call, result, publishThrows) ==
  [outcome |-> "next", session |-> sess, pending |-> pending, published |-> "no"]

\* The code after the await for one call.  publishThrows: the state
\* holder's function throws when it is called.
afterAwait(sess, pending, batch, call, result, publishThrows) ==
  IF result.threw
  THEN innerCatch(sess, batch, call) @@ [pending |-> pending, published |-> "no"]
  ELSE LET first == sendToolResponse(sess, <<functionResponse(call, result.response)>>)
       IN IF first.threw
          THEN innerCatch(first.session, batch, call)
                 @@ [pending |-> pending, published |-> "no"]
          ELSE IF ~result.hasNewData
          THEN [outcome |-> "next", session |-> first.session,
                pending |-> pending, published |-> "no"]
          ELSE IF publishThrows
          THEN innerCatch(first.session, batch, call)
                 @@ [pending |-> pending, published |-> "threw"]
          ELSE [outcome |-> "next", session |-> first.session,
                pending |-> publish(pending, call, result), published |-> "yes"]

\* The result of a call whose promise is not settled yet (a proxy request).
pendingResult(toolArgs) ==
  [threw |-> FALSE, hasNewData |-> FALSE, newData |-> <<>>,
   argElements |-> toolArgs.elements,
   response |-> [success |-> FALSE, kind |-> "pending", ids |-> <<>>]]

\* The start of call i: the snapshot is read and processToolCall is called;
\* the handler then awaits its promise.
startCall(h, i, ref, now) ==
  LET call == h.batch[i]
      seen == getCurrentWhiteboardData(ref)
  IN [h EXCEPT !.pc = "await", !.i = i, !.seen = seen,
               !.result = IF call.name \in jiraToolNames
                          THEN pendingResult(call.args)
                          ELSE processToolCall(seen, call.name, call.args, now)]

----------------------------------------------------------------------------
(* The inputs of the dispatcher: boards and tool calls. *)

MaxBatch == 3

Clock == {0, 1}

Sticky(id, x, y, text, color) ==
  [type |-> "sticky", id |-> id, x |-> x, y |-> y, text |-> text, color |-> color]

\* An element of a tool call's arguments that gives neither position nor color.
ArgElement(type, id, text) ==
  [type |-> type, id |-> id, x |-> NoNumber, y |-> NoNumber, text |-> text, color |-> ""]

EmptyBoard == <<>>

\* A board as an earlier add or sync leaves it: one task in TO DO, one in
\* IN PROGRESS.
TaskBoard ==
  << Sticky("t1", 100, 180, T_FixApi, "yellow"),
     Sticky("t2", 460, 180, T_Docs, "orange") >>

InitialBoards == {EmptyBoard, TaskBoard}

NoArgs ==
  [action |-> "", hasElements |-> FALSE, elements |-> <<>>, elementIds |-> {},
   query |-> <<>>, column |-> "all", taskText |-> <<>>, targetColumn |-> "todo"]

InfoCall(query, column) ==
  [name |-> "get_whiteboard_info", args |-> [NoArgs EXCEPT !.query = query, !.column = column]]

MoveCall(taskText, targetColumn) ==
  [name |-> "move_task",
   args |-> [NoArgs EXCEPT !.taskText = taskText, !.targetColumn = targetColumn]]

AddCall(elements) ==
  [name |-> "update_whiteboard",
   args |-> [NoArgs EXCEPT !.action = "add", !.hasElements = TRUE, !.elements = elements]]

RemoveCall(elementIds) ==
  [name |-> "update_whiteboard",
   args |-> [NoArgs EXCEPT !.action = "remove", !.elementIds = elementIds]]

ToolCalls ==
  { InfoCall(T_Api, "all"),
    MoveCall(T_Api, "inprogress"),
    MoveCall(T_Docs, "inprogress"),
    MoveCall(T_Docs, "done"),
    AddCall(<<ArgElement("sticky", "n1", T_ApiDone)>>),
    AddCall(<<ArgElement("hologram", "n2", T_Docs)>>),
    RemoveCall({"t1"}),
    [name |-> "get_team_workload", args |-> NoArgs],
    [name |-> "frobnicate", args |-> NoArgs] }

CallId(k) ==
  CASE k = 1 -> "call-1" [] k = 2 -> "call-2" [] k = 3 -> "call-3"
    [] k = 4 -> "call-4" [] OTHER -> "call-5"

\* The batches of a toolcall event: the session gives every call its own id.
Batches ==
  UNION { { [k \in 1..n |-> [name |-> f[k].name, args |-> f[k].args, id |-> CallId(k)]] :
              f \in [1..n -> ToolCalls] } : n \in 1..MaxBatch }

----------------------------------------------------------------------------
(* The dispatcher's actions *)

IdleHandler ==
  [pc |-> "idle", batch |-> <<>>, i |-> 0, seen |-> <<>>, result |-> pendingResult(NoArgs),
   log |-> <<>>,
   second |-> <<>>]  \* the calls of a second event that ran while this one awaited

ConnectedSession ==
  [status |-> "connected", delivered |-> {}, answered |-> {}, sent |-> <<>>,
   lastError |-> "", violations |-> <<>>]

\* No JavaScript is running and a task may be taken from the event loop:
\* the handler is not started, has ended, or awaits a request to the proxy.
\* The promise of a tool that touches no network is settled already, and
\* the handler goes on before any task.
TaskBoundary ==
  IF handler.pc = "await" THEN handler.batch[handler.i].name \in jiraToolNames ELSE TRUE

\* The session delivers a toolcall event: onToolCall starts and runs to its
\* first await.
ToolCallEvent ==
  /\ handler.pc = "idle"
  /\ session.status = "connected"
  /\ \E batch \in Batches, now \in Clock :
       /\ session' = [session EXCEPT !.delivered =
                         session.delivered \cup {batch[k].id : k \in 1..Len(batch)}]
       /\ handler' = startCall([handler EXCEPT !.batch = batch], 1, dataRef, now)
  /\ UNCHANGED <<data, dataRef, pendingData, effectDue>>
  /\ UNCHANGED <<matchVars, recorder, worklet, turnVars, hook>>

\* The awaited promise settles: the rest of the iteration runs, then the
\* next call starts or the handler ends.
ToolCallContinue ==
  /\ handler.pc = "await"
  /\ \E publishThrows \in BOOLEAN, fetchOk \in BOOLEAN, now \in Clock :
       LET call == handler.batch[handler.i]
           result == IF call.name \in jiraToolNames
                     THEN processJiraWorkload(call.args, fetchOk)
                     ELSE handler.result
           after == afterAwait(session, pendingData, handler.batch, call, result,
                               publishThrows)
           entry == [id |-> call.id, name |-> call.name, args |-> call.args,
                     seen |-> handler.seen, result |-> result,
                     published |-> after.published, outcome |-> after.outcome]
           logged == [handler EXCEPT !.log = Append(handler.log, entry),
                                     !.result = result]
       IN /\ session' = after.session
          /\ pendingData' = after.pending
          /\ handler' =
               IF after.outcome # "next" THEN [logged EXCEPT !.pc = after.outcome]
               ELSE IF handler.i < Len(handler.batch)
                    THEN startCall(logged, handler.i + 1, dataRef, now)
                    ELSE [logged EXCEPT !.pc = "done"]
  /\ UNCHANGED <<data, dataRef, effectDue>>
  /\ UNCHANGED <<matchVars, recorder, worklet, turnVars, hook>>

\* The batches of a second toolcall event: one call of a tool that touches
\* no network, with an id of its own.
SecondBatches ==
  { <<[name |-> c.name, args |-> c.args, id |-> "call-b1"]>> :
      c \in {MoveCall(T_Docs, "inprogress"),
             AddCall(<<ArgElement("sticky", "n1", T_ApiDone)>>),
             InfoCall(T_Api, "all")} }

\* onToolCall for a batch of one call whose promise is settled when it is
\* awaited: the snapshot is read, the call is processed, answered and
\* published before any task is taken.
callDone(batch, started, after) ==
  [session |-> after.session, pending |-> after.pending,
   log |-> <<[id |-> batch[1].id, name |-> batch[1].name, seen |-> started.seen,
              published |-> after.published, outcome |-> after.outcome]>>]

callStarted(sess, pending, batch, started) ==
  callDone(batch, started,
           afterAwait(sess, pending, batch, batch[1], started.result, FALSE))

callStep(sess, pending, batch, ref, now) ==
  callStarted(sess, pending, batch,
              startCall([IdleHandler EXCEPT !.batch = batch], 1, ref, now))

\* What the invocation for a second event leaves behind.
secondRun(run) ==
  /\ session' = run.session
  /\ pendingData' = run.pending
  /\ handler' = [handler EXCEPT !.second = run.log]

\* The session delivers another toolcall event while onToolCall awaits a
\* request to the proxy: the listener is called again, nothing makes it
\* wait for the invocation that is under way.
SecondToolCallEvent ==
  /\ handler.pc = "await"
  /\ handler.batch[handler.i].name \in jiraToolNames
  /\ handler.second = <<>>
  /\ session.status = "connected"
  /\ \E batch \in SecondBatches, now \in Clock :
       secondRun(callStep([session EXCEPT !.delivered =
                             session.delivered \cup {batch[k].id : k \in 1..Len(batch)}],
                          pendingData, batch, dataRef, now))
  /\ UNCHANGED <<data, dataRef, effectDue>>
  /\ UNCHANGED <<matchVars, recorder, worklet, turnVars, hook>>

\* React renders Whiteboard: the queued setData values are applied in
\* order, so the last one becomes `data`.
ReactRender ==
  /\ TaskBoundary
  /\ pendingData # <<>>
  /\ ~effectDue
  /\ data' = pendingData[Len(pendingData)]
  /\ pendingData' = <<>>
  /\ effectDue' = TRUE
  /\ UNCHANGED <<dataRef, handler, session>>
  /\ UNCHANGED <<matchVars, recorder, worklet, turnVars, hook>>

\* The effect of Whiteboard that follows a render: dataRef.current = data.
ReactEffect ==
  /\ TaskBoundary
  /\ effectDue
  /\ dataRef' = data
  /\ effectDue' = FALSE
  /\ UNCHANGED <<data, pendingData, handler, session>>
  /\ UNCHANGED <<matchVars, recorder, worklet, turnVars, hook>>

----------------------------------------------------------------------------
(* The matching algorithm applied directly: move_task calls, one after the   *)
(* other, on a board of task stickies.                                        *)

PaymentBoard ==
  << Sticky("p1", 100, 180, T_IntegratePaymentGateway, "yellow"),
     Sticky("p2", 100, 270, T_WriteUnitTests, "yellow") >>

\* Two tasks with the same text, and a task with a word of two letters.
TieBoard ==
  << Sticky("d1", 100, 180, T_Docs, "yellow"),
     Sticky("d2", 100, 270, T_Docs, "yellow"),
     Sticky("a3", 460, 180, T_FixAnApi, "orange") >>

\* A board on which the user has dragged a task within its column
\* (updateElement of Whiteboard): x is in the range of TO DO, not at 100.
DraggedBoard ==
  << Sticky("g1", 200, 180, T_WriteUnitTests, "yellow"),
     Sticky("g2", 460, 180, T_Docs, "orange") >>

SearchTexts ==
  {T_PaymentGatewayIntegration, T_WriteUnitTests, T_Api, T_Docs, T_ApiDocs, T_Sprint}

MaxMoves == 2

NoMove ==
  [taskText |-> <<>>, targetColumn |-> "", before |-> <<>>, moved |-> FALSE,
   found |-> FALSE, best |-> "", score |-> <<0, 1>>, n |-> 0,
   prevText |-> <<>>, prevTarget |-> "", prevMoved |-> FALSE]

\* processToolCall("move_task") on the board, which is then replaced by
\* the new snapshot.
DirectMove ==
  /\ mLast.n < MaxMoves
  /\ \E taskText \in SearchTexts, targetColumn \in Columns :
        LET moveResult == moveTaskByText(mBoard, taskText, targetColumn)
        IN /\ mBoard' = moveResult.elements
           /\ mLast' = [taskText |-> taskText, targetColumn |-> targetColumn,
                        before |-> mBoard, moved |-> moveResult.moved,
                        found |-> moveResult.found, best |-> moveResult.best,
                        score |-> moveResult.score, n |-> mLast.n + 1,
                        prevText |-> mLast.taskText, prevTarget |-> mLast.targetColumn,
                        prevMoved |-> mLast.moved]
  /\ UNCHANGED <<boardVars, recorder, worklet, turnVars, hook>>

----------------------------------------------------------------------------
(* jira-whiteboard-tools: the two tools that produce a board.  The proxy's   *)
(* answer is an input: the issues found (key and column of the status).      *)

T_Issue == <<"i","s","s","u","e">>

T_DailyStandup == <<"D","a","i","l","y"," ","S","t","a","n","d","u","p">>

T_CurrentSprint == <<"C","u","r","r","e","n","t"," ","S","p","r","i","n","t">>

\* el.id.startsWith("jira-")
isJiraId(id) == id \in {"jira-K1", "jira-K2"}

\* el.id.startsWith("standup-summary-")
isSummaryId(id) == id \in {"standup-summary-mon", "standup-summary-tue"}

jiraId(key) == IF key = "K1" THEN "jira-K1" ELSE "jira-K2"

summaryId(meetingDate) ==
  IF meetingDate = "mon" THEN "standup-summary-mon" ELSE "standup-summary-tue"

\* estimateStickyHeight of the three-line text of an issue, plus gapY.
issueStep == 70 + 3 * 20 + 16

\* The stickies syncJiraBoard makes of the issues: each below the issues
\* already placed in its column.
issueElements(issues) ==
  [k \in 1..Len(issues) |->
     LET above == Cardinality({j \in 1..(k - 1) : issues[j].column = issues[k].column})
     IN Sticky(jiraId(issues[k].key), kanbanColumns(issues[k].column),
               180 + above * issueStep, T_Issue, columnColor(issues[k].column))]

\* syncJiraBoard: the elements that are neither issues nor the header are
\* kept, the issues and the header are appended; a failed request gives a
\* success:false response and no newData.
syncJiraBoard(currentElements, issues, fetchOk) ==
  IF ~fetchOk
  THEN [threw |-> FALSE, hasNewData |-> FALSE, newData |-> <<>>, argElements |-> <<>>,
        response |-> [success |-> FALSE, kind |-> "error", ids |-> <<>>]]
  ELSE [threw |-> FALSE, hasNewData |-> TRUE,
        newData |->
          SelectSeq(currentElements,
                    LAMBDA el : ~isJiraId(el.id) /\ el.id # "sprint-header")
            \o issueElements(issues)
            \o <<Sticky("sprint-header", 450, 50, T_CurrentSprint, "blue")>>,
        argElements |-> <<>>,
        response |-> [success |-> TRUE, kind |-> "synced", ids |-> <<>>]]

\* createStandupSummary: earlier summaries are dropped, the new one is
\* appended below the columns; when the try block does not complete (the
\* lists of the arguments are no arrays) the catch answers success:false.
createStandupSummary(currentElements, meetingDate, completes) ==
  IF ~completes
  THEN [threw |-> FALSE, hasNewData |-> FALSE, newData |-> <<>>, argElements |-> <<>>,
        response |-> [success |-> FALSE, kind |-> "error", ids |-> <<>>]]
  ELSE [threw |-> FALSE, hasNewData |-> TRUE,
        newData |->
          SelectSeq(currentElements, LAMBDA el : ~isSummaryId(el.id))
            \o <<Sticky(summaryId(meetingDate), 450, 650, T_DailyStandup, "blue")>>,
        argElements |-> <<>>,
        response |-> [success |-> TRUE, kind |-> "summary", ids |-> <<summaryId(meetingDate)>>]]

\* The board as sync_jira_board leaves an empty board when Jira has one
\* issue: the issue and the header.
SyncedBoard == syncJiraBoard(<<>>, <<[key |-> "K1", column |-> "todo"]>>, TRUE).newData

MatchBoards == {PaymentBoard, TaskBoard, TieBoard, DraggedBoard, SyncedBoard}

\* The board on which the operations start: the empty board of a new
\* session, or one that earlier sessions and the user's edits have left.
BoardLoaded ==
  /\ mBoard = EmptyBoard
  /\ mLast = NoMove
  /\ mBoard' \in MatchBoards
  /\ UNCHANGED <<mLast, boardVars, recorder, worklet, turnVars, hook>>

----------------------------------------------------------------------------
(* The dispatcher operations applied directly, one after the other, each to  *)
(* the snapshot the one before produced.                                      *)

MaxElements == 4

UpdateCall(elements) ==
  [name |-> "update_whiteboard",
   args |-> [NoArgs EXCEPT !.action = "update", !.hasElements = TRUE, !.elements = elements]]

ReplaceCall(elements) ==
  [name |-> "update_whiteboard",
   args |-> [NoArgs EXCEPT !.action = "replace", !.hasElements = TRUE, !.elements = elements]]

\* Issues as the proxy returns them: every key once.
IssueLists ==
  { <<>>,
    <<[key |-> "K1", column |-> "todo"]>>,
    <<[key |-> "K1", column |-> "inprogress"], [key |-> "K2", column |-> "inprogress"]>> }

BoardCalls ==
  { AddCall(<<ArgElement("sticky", "n1", T_ApiDone)>>),
    AddCall(<<ArgElement("sticky", "t1", T_Docs)>>),
    AddCall(<<ArgElement("sticky", "", T_Api), ArgElement("sticky", "", T_Docs)>>),
    AddCall(<<ArgElement("sticky", "n1", T_Api), ArgElement("hologram", "n2", T_Docs)>>),
    AddCall(<<ArgElement("flow-node", "f1", Undefined)>>),
    UpdateCall(<<ArgElement("sticky", "t1", T_ApiDone)>>),
    UpdateCall(<<ArgElement("hologram", "t1", T_Docs)>>),
    UpdateCall(<<ArgElement("hologram", "zz", T_Docs)>>),
    RemoveCall({"t1"}),
    ReplaceCall(<<ArgElement("sticky", "n1", T_Api)>>),
    ReplaceCall(<<ArgElement("sticky", "n1", T_Api), ArgElement("hologram", "n2", T_Docs)>>),
    MoveCall(T_Api, "inprogress"),
    MoveCall(T_Docs, "inprogress"),
    [name |-> "sync_jira_board", args |-> NoArgs],
    [name |-> "create_standup_summary", args |-> NoArgs] }

\* A variant in which "add" pushes its elements onto the given array.
givenAfterInPlace(currentElements, toolName, toolArgs) ==
  IF toolName = "update_whiteboard" /\ toolArgs.action = "add"
  THEN currentElements \o toolArgs.elements
  ELSE currentElements

\* The snapshot that was given to an operation, as the operation leaves it.
\* No case of processWhiteboardToolCall, moveTaskByText, syncJiraBoard or
\* createStandupSummary assigns to currentData, to its elements array or to
\* one of its elements: each builds its result with a spread, map, filter or
\* a new array.  (What "add" and "replace" assign to are the elements of the
\* call's arguments.)
givenAfter(currentElements, toolName, toolArgs) == currentElements

MaxOps == 3

\* The operations applied so far.
opCount == IF mLast = NoMove THEN 0 ELSE mLast.n

\* A call that adds task stickies without a position (the "add" case then
\* positions them), or a move_task call.
addsOrMovesTasks(call) ==
  \/ call.name = "move_task"
  \/ /\ call.name = "update_whiteboard"
     /\ call.args.action = "add"
     /\ \A k \in 1..Len(call.args.elements) :
          LET element == call.args.elements[k]
          IN /\ element.type = "sticky"
             /\ Falsy(element.x)
             /\ Falsy(element.y)
             /\ ~isSummaryText(element.text)

\* The board started empty and every operation so far was such a call.
tasksOnlySoFar == IF mLast = NoMove THEN mBoard = EmptyBoard ELSE mLast.tasksOnly

\* The board and the record of the last operation after an operation that
\* returned result.
applied(call, result) ==
  LET produced == result.hasNewData /\ ~result.threw
  IN /\ produced => Len(result.newData) <= MaxElements
     /\ mBoard' = IF produced THEN result.newData ELSE mBoard
     /\ mLast' = [name |-> call.name, args |-> call.args, before |-> mBoard,
                  threw |-> result.threw, produced |-> produced,
                  success |-> ~result.threw /\ result.response.success,
                  after |-> IF produced THEN result.newData ELSE <<>>,
                  givenAfter |-> givenAfter(mBoard, call.name, call.args),
                  tasksOnly |-> tasksOnlySoFar /\ addsOrMovesTasks(call),
                  n |-> opCount + 1]

\* One operation: processToolCall with the board as currentData; the board
\* becomes result.newData when the result has one.
DirectOp ==
  /\ opCount < MaxOps
  /\ \E call \in BoardCalls :
        CASE call.name = "sync_jira_board" ->
               \E issues \in IssueLists, fetchOk \in BOOLEAN :
                  applied(call, syncJiraBoard(mBoard, issues, fetchOk))
          [] call.name = "create_standup_summary" ->
               \E meetingDate \in {"mon", "tue"}, completes \in BOOLEAN :
                  applied(call, createStandupSummary(mBoard, meetingDate, completes))
          [] OTHER ->
               \E now \in Clock :
                  applied(call, processToolCall(mBoard, call.name, call.args, now))
  /\ UNCHANGED <<boardVars, recorder, worklet, turnVars, hook>>

----------------------------------------------------------------------------
(* AudioRecorder.  An attempt is one run of the promise executor of start(); *)
(* its pc names the await it is suspended at.  A media stream is named by    *)
(* the attempt whose getUserMedia call produced it (0: null).                *)

MaxStarts == 2

MaxStops == 1

AttemptIds == 1..MaxStarts

InFlight == {"getUserMedia", "getAudioContext", "addModule1", "addModule2"}

NewRecorder ==
  [stream |-> 0, source |-> 0, recordingWorklet |-> FALSE, volumeWorklet |-> FALSE,
   isRecording |-> FALSE, starting |-> 0,
   attempts |-> [a \in AttemptIds |-> "none"],
   stopAfter |-> [a \in AttemptIds |-> 0],   \* handleStop callbacks chained to the promise
   liveStreams |-> {},                       \* streams acquired whose tracks are not stopped
   getUserMediaCalls |-> 0,
   freshStarts |-> 0,                        \* start() calls made with no attempt in flight
   stopCalls |-> 0,
   stopSeen |-> {},                          \* the attempts in flight at the last stop()
   startedSinceStop |-> FALSE]               \* start() was called after the last stop()

attemptsInFlight(r) == {a \in AttemptIds : r.attempts[a] \in InFlight}

\* handleStop of stop(): disconnect the source, stop the tracks of
\* this.stream, drop the worklets.
handleStop(r) ==
  [r EXCEPT !.source = 0, !.stream = 0,
            !.liveStreams = r.liveStreams \ {r.stream},
            !.recordingWorklet = FALSE, !.volumeWorklet = FALSE,
            !.isRecording = FALSE]

RECURSIVE handleStopTimes(_, _)
handleStopTimes(r, n) == IF n = 0 THEN r ELSE handleStopTimes(handleStop(r), n - 1)

\* The promise of attempt a settles: `finally` clears this.starting, then
\* the callbacks that stop() chained to the promise run.
settle(r, a, outcome) ==
  handleStopTimes([r EXCEPT !.attempts[a] = outcome, !.starting = 0,
                            !.stopAfter[a] = 0],
                  r.stopAfter[a])

\* start(): a new promise is stored in this.starting and its executor runs
\* up to the await of getUserMedia.
startNewAttempt(r, a) ==
  [r EXCEPT !.starting = a, !.attempts[a] = "getUserMedia",
            !.startedSinceStop = TRUE,
            !.getUserMediaCalls = r.getUserMediaCalls + 1,
            !.freshStarts = r.freshStarts + (IF attemptsInFlight(r) = {} THEN 1 ELSE 0)]

RecorderStart ==
  /\ \E a \in AttemptIds :
       /\ recorder.attempts[a] = "none"
       /\ \A b \in AttemptIds : b < a => recorder.attempts[b] # "none"
       /\ recorder' = startNewAttempt(recorder, a)
  /\ UNCHANGED <<boardVars, matchVars, worklet, turnVars, hook>>

\* An await of attempt a resolves and the executor runs to its next await.
awaitResolves(r, a) ==
  IF r.attempts[a] = "getUserMedia"
  THEN [r EXCEPT !.stream = a, !.attempts[a] = "getAudioContext",
                 !.liveStreams = r.liveStreams \cup {a}]
  ELSE IF r.attempts[a] = "getAudioContext"
  THEN \* createMediaStreamSource(this.stream) throws on null
       IF r.stream = 0 THEN settle(r, a, "rejected")
       ELSE [r EXCEPT !.source = r.stream, !.attempts[a] = "addModule1"]
  ELSE IF r.attempts[a] = "addModule1"
  THEN \* this.source.connect(..) throws on null
       IF r.source = 0
       THEN settle([r EXCEPT !.recordingWorklet = TRUE], a, "rejected")
       ELSE [r EXCEPT !.recordingWorklet = TRUE, !.attempts[a] = "addModule2"]
  ELSE IF r.source = 0
       THEN settle([r EXCEPT !.volumeWorklet = TRUE], a, "rejected")
       ELSE settle([r EXCEPT !.volumeWorklet = TRUE, !.isRecording = TRUE],
                   a, "resolved")

RecorderAwaitResolves ==
  /\ \E a \in AttemptIds :
        /\ recorder.attempts[a] \in InFlight
        /\ recorder' = awaitResolves(recorder, a)
  /\ UNCHANGED <<boardVars, matchVars, worklet, turnVars, hook>>

\* An await of attempt a rejects (permission denied, no device, a worklet
\* that does not load): catch rejects the promise.
RecorderAwaitRejects ==
  /\ \E a \in AttemptIds :
        /\ recorder.attempts[a] \in InFlight
        /\ recorder' = settle(recorder, a, "rejected")
  /\ UNCHANGED <<boardVars, matchVars, worklet, turnVars, hook>>

\* stop(): after the promise in this.starting when there is one, at once
\* otherwise.
recorderStop(r) ==
  IF r.starting # 0
  THEN [r EXCEPT !.stopAfter[r.starting] = @ + 1,
                 !.stopCalls = @ + 1,
                 !.stopSeen = attemptsInFlight(r),
                 !.startedSinceStop = FALSE]
  ELSE [handleStop(r) EXCEPT !.stopCalls = @ + 1,
                             !.stopSeen = attemptsInFlight(r),
                             !.startedSinceStop = FALSE]

RecorderStop ==
  /\ recorder.stopCalls < MaxStops
  /\ recorder' = recorderStop(recorder)
  /\ UNCHANGED <<boardVars, matchVars, worklet, turnVars, hook>>

----------------------------------------------------------------------------
(* AudioProcessingWorklet (the capture framer).  The model keeps the write   *)
(* cursor and the length, in samples, of every chunk posted to the port.     *)

BufferLength == 2048

\* The buffer is an Int16Array: two bytes per sample.
BytesPerSample == 2

\* The byte length of a posted chunk of n samples.
byteLength(n) == n * BytesPerSample

MaxSamples == 4500

\* The lengths of the frames handed to process(); 0 is a call without an
\* input channel.
FrameLengths == {0, 100, 128}

\* delivered: the messages of the port that reached the recorder; sent: the
\* chunks handed to sendRealtimeInput, each named by its place in `chunks`;
\* stopped: the recorder has disconnected the source.
NewWorklet ==
  [bufferWriteIndex |-> 0, chunks |-> <<>>, samples |-> 0,
   delivered |-> 0, sent |-> <<>>, stopped |-> FALSE,
   prevSample |-> 0, prevStored |-> 0,   \* the last two samples converted: the
   lastSample |-> 0, lastStored |-> 0,   \* input (in 1/SampleScale) and the value stored
   buffer |-> <<>>,                      \* what the cells of the buffer hold
   contents |-> <<>>]                    \* what the posted chunks hold

\* The input samples are numbered 1, 2, .. in the order of their arrival.
\* A run [at, first, len] says that the cells at .. at + len - 1 hold the
\* samples first .. first + len - 1; the buffer and a chunk are sequences of
\* runs in the order of the cells, neighbours that continue each other
\* being one run.
clip(run, lo, hi) ==
  LET a == IF run.at > lo THEN run.at ELSE lo
      b == IF run.at + run.len < hi THEN run.at + run.len ELSE hi
  IN [at |-> a, first |-> run.first + (a - run.at), len |-> b - a]

clipAll(runs, lo, hi) ==
  SelectSeq([k \in 1..Len(runs) |-> clip(runs[k], lo, hi)], LAMBDA run : run.len > 0)

continues(a, b) == a.at + a.len = b.at /\ a.first + a.len = b.first

RECURSIVE joined(_)
joined(runs) ==
  IF Len(runs) < 2 THEN runs
  ELSE IF continues(runs[1], runs[2])
       THEN joined(<<[runs[1] EXCEPT !.len = runs[1].len + runs[2].len]>> \o Tail(Tail(runs)))
       ELSE <<runs[1]>> \o joined(Tail(runs))

\* buffer[p] = .., .., buffer[p + n - 1] = ..: the samples first .. are
\* stored; an assignment beyond the length of a typed array stores nothing.
written(runs, p, first, n) ==
  joined(clipAll(runs, 0, p)
         \o clipAll(<<[at |-> p, first |-> first, len |-> n]>>, 0, BufferLength)
         \o clipAll(runs, p + n, BufferLength))

\* buffer.slice(0, end)
slice(runs, end) == clipAll(runs, 0, end)

\* A variant of sendAndClearBuffer that posts one sample less.
sendAndClearBufferShort(w) ==
  [w EXCEPT !.chunks = Append(w.chunks, w.bufferWriteIndex - 1), !.bufferWriteIndex = 0]

\* sendAndClearBuffer(): post buffer.slice(0, bufferWriteIndex), reset the cursor.
sendAndClearBuffer(w) ==
  [w EXCEPT !.chunks = Append(w.chunks, w.bufferWriteIndex),
            !.contents = Append(w.contents, slice(w.buffer, w.bufferWriteIndex)),
            !.bufferWriteIndex = 0]

\* The loop of processChunk stores one sample per turn, advances the cursor
\* and sends when the cursor reaches the end of the buffer.  storeSamples
\* runs the turns up to the next point where the loop can send: `n` samples
\* are stored, n being at most the room left in the buffer.
storeSamples(w, n) ==
  LET stored == [w EXCEPT !.bufferWriteIndex = w.bufferWriteIndex + n,
                          !.samples = w.samples + n,
                          !.buffer = written(w.buffer, w.bufferWriteIndex, w.samples + 1, n)]
  IN IF stored.bufferWriteIndex >= BufferLength THEN sendAndClearBuffer(stored) ELSE stored

\* A variant of the loop that sends only after the last sample of the frame.
processLoopSendLast(w, l) ==
  [w EXCEPT !.bufferWriteIndex = w.bufferWriteIndex + l,
            !.samples = w.samples + l,
            !.buffer = written(w.buffer, w.bufferWriteIndex, w.samples + 1, l)]

RECURSIVE processLoop(_, _)
processLoop(w, l) ==
  IF l = 0 THEN w
  ELSE LET room == BufferLength - w.bufferWriteIndex
           n == IF l < room THEN l ELSE room
       IN processLoop(storeSamples(w, n), l - n)

\* processChunk(float32Array): the loop, then the check after it.
processChunk(w, l) ==
  LET looped == processLoop(w, l)
  IN IF looped.bufferWriteIndex >= BufferLength THEN sendAndClearBuffer(looped) ELSE looped

\* process(inputs): processChunk(inputs[0][0]) when inputs[0] has a channel.
WorkletProcess ==
  /\ ~worklet.stopped
  /\ \E l \in FrameLengths :
        /\ worklet.samples + l <= MaxSamples
        /\ worklet' = IF l > 0 THEN processChunk(worklet, l) ELSE worklet
  /\ UNCHANGED <<boardVars, matchVars, recorder, turnVars, hook>>

\* Samples are fractions k / SampleScale.
SampleScale == 65536

\* -1, 1, 0 and values next to them and to a half.
SampleNumerators ==
  {0 - 65536, 0 - 65535, 0 - 32769, 0 - 3, 0 - 1, 0, 1, 3, 32768, 65535, 65536}

\* The integer part of n / d, rounded towards zero (d > 0).
truncate(n, d) == IF n >= 0 THEN n \div d ELSE 0 - ((0 - n) \div d)

\* The value an Int16Array element takes when the number v is assigned to
\* it: v modulo 2^16, in -32768..32767.
toInt16(v) == ((v + 32768) % 65536) - 32768

\* float32Array[i] * 32768 for the sample k / SampleScale, cut to an
\* integer: k * 32768 / SampleScale = k / (SampleScale / 32768).
scaled(k) == truncate(k, SampleScale \div 32768)

\* buffer[bufferWriteIndex++] = float32Array[i] * 32768
storedValue(k) == toInt16(scaled(k))

\* One turn of the loop of processChunk, for the value it stores.
ConvertSample ==
  /\ \E k \in SampleNumerators :
        worklet' = [worklet EXCEPT !.prevSample = worklet.lastSample,
                                   !.prevStored = worklet.lastStored,
                                   !.lastSample = k,
                                   !.lastStored = storedValue(k)]
  /\ UNCHANGED <<boardVars, matchVars, recorder, turnVars, hook>>

\* A variant of nextMessage that takes the message posted last.
nextMessageLast(w) == Len(w.chunks)

\* The message the port delivers next: messages of a MessagePort arrive in
\* the order in which they were posted.
nextMessage(w) == w.delivered + 1

\* recordingWorklet.port.onmessage: the chunk is encoded and emitted as
\* "data"; the listener of startRecording hands it to sendRealtimeInput of
\* the current client, within the same call.
onmessage(w) ==
  [w EXCEPT !.delivered = w.delivered + 1, !.sent = Append(w.sent, nextMessage(w))]

PortMessage ==
  /\ worklet.delivered < Len(worklet.chunks)
  /\ worklet' = onmessage(worklet)
  /\ UNCHANGED <<boardVars, matchVars, recorder, turnVars, hook>>

\* handleStop of AudioRecorder.stop(), seen from the worklet: the source is
\* disconnected and the reference to the node dropped; nothing is posted to
\* the node and the node posts nothing.
handleStopWorklet(w) == [w EXCEPT !.stopped = TRUE]

CaptureStops ==
  /\ ~worklet.stopped
  /\ worklet' = handleStopWorklet(worklet)
  /\ UNCHANGED <<boardVars, matchVars, recorder, turnVars, hook>>

----------------------------------------------------------------------------
(* useGeminiLive: the handlers of the session events and GeminiLiveState.    *)
(* setState((prev) => ..) calls are applied in the order made, so `state`    *)
(* is the state they add up to.  The playback streamer's source is not part  *)
(* of the repository files at hand: addPCM16, stop and the end of a chunk    *)
(* follow the specification of the Audio Playback Streamer.  `turn` is the   *)
(* remote side: whether a model turn is open and the last event delivered.   *)

MaxScheduled == 3

MaxInterruptions == 2

NewState == [isConnected |-> FALSE, isRecording |-> FALSE, isSpeaking |-> FALSE,
             error |-> FALSE]

\* audioStreamerRef.current is null until AudioStreamer.create() resolves.
NoStreamer == [created |-> FALSE, scheduled |-> 0, stopCalls |-> 0]

\* flushed: the chunks that were scheduled when the last `interrupted` arrived.
NoTurn == [phase |-> "none", lastEvent |-> "", interruptions |-> 0, flushed |-> 0]

\* AudioStreamer.addPCM16(chunk): schedule the chunk after those scheduled.
addPCM16(st) == IF st.created THEN [st EXCEPT !.scheduled = st.scheduled + 1] ELSE st

\* AudioStreamer.stop(): halt playback and discard what is scheduled.
streamerStop(st) ==
  IF st.created THEN [st EXCEPT !.scheduled = 0, !.stopCalls = st.stopCalls + 1] ELSE st

onOpen(s) == [s EXCEPT !.isConnected = TRUE, !.error = FALSE]

onClose(s) == [s EXCEPT !.isConnected = FALSE, !.isRecording = FALSE]

onError(s) == [s EXCEPT !.error = TRUE, !.isConnected = FALSE, !.isRecording = FALSE]

onAudio(s) == [s EXCEPT !.isSpeaking = TRUE]

\* onContent: speaking ends when the content holds a text part.
onContent(s, hasText) == IF hasText THEN [s EXCEPT !.isSpeaking = FALSE] ELSE s

\* A variant of onInterrupted that leaves the speaking flag as it is.
onInterruptedKeepsFlag(s) == s

onInterrupted(s) == [s EXCEPT !.isSpeaking = FALSE]

onTurnComplete(s) == [s EXCEPT !.isSpeaking = FALSE]

StreamerCreated ==
  /\ ~streamer.created
  /\ streamer' = [streamer EXCEPT !.created = TRUE]
  /\ turn' = [turn EXCEPT !.lastEvent = "created"]
  /\ UNCHANGED state
  /\ UNCHANGED <<boardVars, matchVars, recorder, worklet, hook>>

OpenEvent ==
  /\ ~state.isConnected
  /\ state' = onOpen(state)
  /\ turn' = [turn EXCEPT !.lastEvent = "open"]
  /\ UNCHANGED streamer
  /\ UNCHANGED <<boardVars, matchVars, recorder, worklet, hook>>

CloseEvent ==
  /\ state.isConnected
  /\ state' = onClose(state)
  /\ turn' = [turn EXCEPT !.phase = "none", !.lastEvent = "close"]
  /\ UNCHANGED streamer
  /\ UNCHANGED <<boardVars, matchVars, recorder, worklet, hook>>

ErrorEvent ==
  /\ state.isConnected
  /\ state' = onError(state)
  /\ turn' = [turn EXCEPT !.phase = "none", !.lastEvent = "error"]
  /\ UNCHANGED streamer
  /\ UNCHANGED <<boardVars, matchVars, recorder, worklet, hook>>

\* An audio event: of the open turn, or late, after the turn was interrupted.
AudioEvent ==
  /\ state.isConnected
  /\ streamer.scheduled < MaxScheduled
  /\ state' = onAudio(state)
  /\ streamer' = addPCM16(streamer)
  /\ turn' = [turn EXCEPT !.phase = IF turn.phase = "none" THEN "model" ELSE turn.phase,
                          !.lastEvent = "audio"]
  /\ UNCHANGED <<boardVars, matchVars, recorder, worklet, hook>>

ContentEvent ==
  /\ state.isConnected
  /\ \E hasText \in BOOLEAN : state' = onContent(state, hasText)
  /\ turn' = [turn EXCEPT !.phase = IF turn.phase = "none" THEN "model" ELSE turn.phase,
                          !.lastEvent = "content"]
  /\ UNCHANGED streamer
  /\ UNCHANGED <<boardVars, matchVars, recorder, worklet, hook>>

\* `interrupted` arrives while the model's turn is open, before its turncomplete.
InterruptedEvent ==
  /\ state.isConnected
  /\ turn.phase = "model"
  /\ turn.interruptions < MaxInterruptions
  /\ state' = onInterrupted(state)
  /\ streamer' = streamerStop(streamer)
  /\ turn' = [turn EXCEPT !.phase = "interrupted", !.lastEvent = "interrupted",
                          !.interruptions = turn.interruptions + 1,
                          !.flushed = streamer.scheduled]
  /\ UNCHANGED <<boardVars, matchVars, recorder, worklet, hook>>

TurnCompleteEvent ==
  /\ state.isConnected
  /\ turn.phase # "none"
  /\ state' = onTurnComplete(state)
  /\ turn' = [turn EXCEPT !.phase = "none", !.lastEvent = "turncomplete"]
  /\ UNCHANGED streamer
  /\ UNCHANGED <<boardVars, matchVars, recorder, worklet, hook>>

\* The output device finishes the chunk that is playing.
PlaybackEnds ==
  /\ streamer.scheduled > 0
  /\ streamer' = [streamer EXCEPT !.scheduled = streamer.scheduled - 1]
  /\ turn' = [turn EXCEPT !.lastEvent = "played"]
  /\ UNCHANGED state
  /\ UNCHANGED <<boardVars, matchVars, recorder, worklet, hook>>

----------------------------------------------------------------------------
(* useGeminiLive: the session clients the hook creates, connect(),           *)
(* disconnect(), startRecording() and stopRecording().  A client is named by *)
(* the order of its creation and has the status of its session ("none": not  *)
(* created yet).  The source of the client is not part of the repository     *)
(* files at hand: its connect() and disconnect() follow the specification    *)
(* of the Live Session Client.  Every client the hook created keeps the      *)
(* listeners of setupEventListeners, which change the hook's state.          *)

MaxClients == 2

MaxConnects == 2

MaxDisconnects == 2

ClientIds == 1..MaxClients

MaxToolCalls == 1

\* onToolCall is not running.  (client, session) name the session that
\* delivered the ToolCall: the client and the number of the session among
\* those the client has opened.
NoReaction == [pc |-> "idle", name |-> "", client |-> 0, session |-> 0, calls |-> 0]

\* The hook after its first render with an API key: the effect has created
\* the first client.
NewHook ==
  [clientRef |-> 1,
   clients |-> [c \in ClientIds |-> IF c = 1 THEN "disconnected" ELSE "none"],
   awaiting |-> [a \in AttemptIds |-> FALSE],  \* startRecording awaits start() attempt a
   connectCalls |-> 0,
   disconnectCalls |-> 0,
   sinceDisconnect |-> FALSE,  \* disconnect() was called, connect()/startRecording() not since
   opened |-> [c \in ClientIds |-> 0],  \* the sessions client c has opened so far
   reaction |-> NoReaction,              \* the run of onToolCall
   texts |-> <<>>]                       \* what onToolCall has put on a session

\* GeminiLiveClient.disconnect(): to `disconnected` whatever the status.
clientDisconnect(status) == "disconnected"

\* GeminiLiveClient.connect(): the handshake starts.
clientConnect(status) == "connecting"

\* The state after the `close` event of a client that was connected.
closedBy(s, status) == IF status = "connected" THEN onClose(s) ELSE s

\* The effect on options.apiKey: a client that is connected is
\* disconnected, then a new client replaces it in clientRef.
ApiKeyChanges ==
  /\ \E c \in ClientIds :
        /\ hook.clients[c] = "none"
        /\ \A b \in ClientIds : b < c => hook.clients[b] # "none"
        /\ LET cur == hook.clientRef
               old == hook.clients[cur]
           IN /\ hook' = [hook EXCEPT !.clientRef = c,
                                      !.clients[cur] = IF old = "connected"
                                                       THEN clientDisconnect(old) ELSE old,
                                      !.clients[c] = "disconnected"]
              /\ state' = IF old = "connected" THEN closedBy(state, old) ELSE state
  /\ UNCHANGED <<boardVars, matchVars, recorder, worklet, streamer, turn>>

\* connect(): the error is cleared, the current client is disconnected and
\* its connect() is awaited.
HookConnect ==
  /\ hook.connectCalls < MaxConnects
  /\ LET cur == hook.clientRef
         old == hook.clients[cur]
     IN /\ hook' = [hook EXCEPT !.clients[cur] = clientConnect(clientDisconnect(old)),
                                !.connectCalls = @ + 1,
                                !.sinceDisconnect = FALSE]
        /\ state' = [closedBy(state, old) EXCEPT !.error = FALSE]
  /\ UNCHANGED <<boardVars, matchVars, recorder, worklet, streamer, turn>>

\* The handshake of a client succeeds: it is connected and emits `open`.
ConnectResolves ==
  /\ \E c \in ClientIds :
        /\ hook.clients[c] = "connecting"
        /\ hook' = [hook EXCEPT !.clients[c] = "connected", !.opened[c] = @ + 1]
  /\ state' = onOpen(state)
  /\ UNCHANGED <<boardVars, matchVars, recorder, worklet, streamer, turn>>

\* The handshake of a client fails: the catch of connect() sets the error.
ConnectFails ==
  /\ \E c \in ClientIds :
        /\ hook.clients[c] = "connecting"
        /\ hook' = [hook EXCEPT !.clients[c] = "disconnected"]
  /\ state' = [state EXCEPT !.error = TRUE]
  /\ UNCHANGED <<boardVars, matchVars, recorder, worklet, streamer, turn>>

\* The remote side closes the session of a connected client.
ClientCloses ==
  /\ \E c \in ClientIds :
        /\ hook.clients[c] = "connected"
        /\ hook' = [hook EXCEPT !.clients[c] = "disconnected"]
  /\ state' = onClose(state)
  /\ UNCHANGED <<boardVars, matchVars, recorder, worklet, streamer, turn>>

\* disconnect(): the current client is disconnected, the recorder is
\* stopped when it is recording, the streamer is stopped, the flags are
\* cleared.
HookDisconnect ==
  /\ hook.disconnectCalls < MaxDisconnects
  /\ hook' = [hook EXCEPT !.clients[hook.clientRef] = clientDisconnect(@),
                          !.disconnectCalls = @ + 1,
                          !.sinceDisconnect = TRUE]
  /\ recorder' = IF recorder.isRecording THEN recorderStop(recorder) ELSE recorder
  /\ streamer' = streamerStop(streamer)
  /\ state' = [closedBy(state, hook.clients[hook.clientRef])
                 EXCEPT !.isConnected = FALSE, !.isRecording = FALSE, !.isSpeaking = FALSE]
  /\ UNCHANGED <<boardVars, matchVars, worklet, turn>>

\* startRecording(): throws when the hook is not connected; otherwise
\* start() of the recorder is called and awaited.
HookStartRecording ==
  /\ state.isConnected
  /\ \E a \in AttemptIds :
        /\ recorder.attempts[a] = "none"
        /\ \A b \in AttemptIds : b < a => recorder.attempts[b] # "none"
        /\ recorder' = startNewAttempt(recorder, a)
        /\ hook' = [hook EXCEPT !.awaiting[a] = TRUE, !.sinceDisconnect = FALSE]
  /\ UNCHANGED <<boardVars, matchVars, worklet, turnVars>>

\* The state after the await of start() attempt a in startRecording, once
\* the attempt has settled.
afterStart(s, outcome) ==
  IF outcome = "resolved" THEN [s EXCEPT !.isRecording = TRUE]
  ELSE IF outcome = "rejected" THEN [s EXCEPT !.error = TRUE]
  ELSE s

\* An await of a start() attempt resolves; when the attempt settles by it,
\* startRecording goes on behind its await.
HookStartResolves ==
  /\ \E a \in AttemptIds :
        /\ recorder.attempts[a] \in InFlight
        /\ recorder' = awaitResolves(recorder, a)
        /\ state' = afterStart(state, recorder'.attempts[a])
        /\ hook' = [hook EXCEPT !.awaiting[a] = recorder'.attempts[a] \in InFlight]
  /\ UNCHANGED <<boardVars, matchVars, worklet, streamer, turn>>

HookStartRejects ==
  /\ \E a \in AttemptIds :
        /\ recorder.attempts[a] \in InFlight
        /\ recorder' = settle(recorder, a, "rejected")
        /\ state' = afterStart(state, "rejected")
        /\ hook' = [hook EXCEPT !.awaiting[a] = FALSE]
  /\ UNCHANGED <<boardVars, matchVars, worklet, streamer, turn>>

\* stopRecording(): a no-op unless the recorder is recording.
HookStopRecording ==
  /\ recorder.isRecording
  /\ recorder.stopCalls < MaxStops
  /\ recorder' = recorderStop(recorder)
  /\ state' = [state EXCEPT !.isRecording = FALSE]
  /\ UNCHANGED <<boardVars, matchVars, worklet, streamer, turn, hook>>

----------------------------------------------------------------------------
(* onToolCall and the sessions: one call per event here; what it sends goes  *)
(* to clientRef.current as it is when the sending statement runs.  send and  *)
(* sendToolResponse of the client follow the specification of the client:    *)
(* a client that is connected puts the message on its session, a response    *)
(* whose id the session has not delivered is a ProtocolViolation.            *)

ReactionCalls == {"move_task", "sync_jira_board", "get_whiteboard_info"}

\* The session on which clientRef.current would put a message now.
currentSession == [client |-> hook.clientRef, session |-> hook.opened[hook.clientRef]]

\* What one sending statement of onToolCall puts on the session.
sentNow(kind) ==
  [kind |-> kind, client |-> currentSession.client, session |-> currentSession.session,
   fromClient |-> hook.reaction.client, fromSession |-> hook.reaction.session]

\* The connected current client emits toolcall: onToolCall runs up to the
\* await of processToolCall.
HookToolCall ==
  /\ hook.reaction.pc \in {"idle", "done"}
  /\ hook.reaction.calls < MaxToolCalls
  /\ hook.clients[hook.clientRef] = "connected"
  /\ \E name \in ReactionCalls :
        hook' = [hook EXCEPT !.reaction = [pc |-> "await", name |-> name,
                                           client |-> currentSession.client,
                                           session |-> currentSession.session,
                                           calls |-> hook.reaction.calls + 1]]
  /\ UNCHANGED <<boardVars, matchVars, recorder, worklet, turnVars>>

\* processToolCall returns: clientRef.current?.sendToolResponse(..), then,
\* for a successful move_task (200 ms) or a sync_jira_board with team
\* members (300 ms), setTimeout.  A sendToolResponse that throws ends in
\* the catch of the call, before the setTimeout.
HookToolCallAnswered ==
  /\ hook.reaction.pc = "await"
  /\ \E success \in BOOLEAN :
        LET accepted == /\ hook.clients[hook.clientRef] = "connected"
                        /\ currentSession.client = hook.reaction.client
                        /\ currentSession.session = hook.reaction.session
            timed == accepted /\ success /\ hook.reaction.name \in {"move_task", "sync_jira_board"}
        IN hook' = [hook EXCEPT !.texts = IF accepted THEN Append(@, sentNow("response")) ELSE @,
                                !.reaction.pc = IF timed THEN "timer" ELSE "done"]
  /\ UNCHANGED <<boardVars, matchVars, recorder, worklet, turnVars>>

\* The timer fires: clientRef.current?.send([{text}], true).
FollowUpFires ==
  /\ hook.reaction.pc = "timer"
  /\ hook' = [hook EXCEPT !.texts = IF hook.clients[hook.clientRef] = "connected"
                                    THEN Append(@, sentNow("text")) ELSE @,
                          !.reaction.pc = "done"]
  /\ UNCHANGED <<boardVars, matchVars, recorder, worklet, turnVars>>

----------------------------------------------------------------------------
(* Specifications.  Every component starts as constructed; a specification   *)
(* runs the actions of one component and leaves the others as they are.      *)

Init ==
  /\ data \in InitialBoards
  /\ dataRef = data
  /\ pendingData = <<>>
  /\ effectDue = FALSE
  /\ handler = IdleHandler
  /\ session = ConnectedSession
  /\ state = NewState
  /\ streamer = NoStreamer
  /\ turn = NoTurn
  /\ recorder = NewRecorder
  /\ worklet = NewWorklet
  /\ mBoard = EmptyBoard
  /\ mLast = NoMove
  /\ hook = NewHook

\* The tool dispatcher of useGeminiLive with the Whiteboard state holder.
Next ==
  \/ ToolCallEvent
  \/ ToolCallContinue
  \/ ReactRender
  \/ ReactEffect

Spec == Init /\ [][Next]_vars

\* The same with toolcall events that overlap.
NextEvents ==
  \/ ToolCallEvent
  \/ ToolCallContinue
  \/ SecondToolCallEvent
  \/ ReactRender
  \/ ReactEffect

SpecEvents == Init /\ [][NextEvents]_vars

NextMatch ==
  \/ BoardLoaded
  \/ DirectMove

SpecMatch == Init /\ [][NextMatch]_vars

NextOps ==
  \/ BoardLoaded
  \/ DirectOp

SpecOps == Init /\ [][NextOps]_vars

NextRecorder ==
  \/ RecorderStart
  \/ RecorderAwaitResolves
  \/ RecorderAwaitRejects
  \/ RecorderStop

SpecRecorder == Init /\ [][NextRecorder]_vars

NextWorklet ==
  \/ WorkletProcess
  \/ PortMessage
  \/ CaptureStops

SpecWorklet == Init /\ [][NextWorklet]_vars

\* The conversion of the samples alone.
NextConvert == ConvertSample

SpecConvert == Init /\ [][NextConvert]_vars

NextTurn ==
  \/ StreamerCreated
  \/ OpenEvent
  \/ CloseEvent
  \/ ErrorEvent
  \/ AudioEvent
  \/ ContentEvent
  \/ InterruptedEvent
  \/ TurnCompleteEvent
  \/ PlaybackEnds

SpecTurn == Init /\ [][NextTurn]_vars

\* The session events of SpecTurn are those of the hook's connected client;
\* SpecHook runs the hook's operations and the lifecycle of its clients.
NextHook ==
  \/ ApiKeyChanges
  \/ HookConnect
  \/ ConnectResolves
  \/ ConnectFails
  \/ ClientCloses
  \/ HookDisconnect
  \/ HookStartRecording
  \/ HookStartResolves
  \/ HookStartRejects
  \/ HookStopRecording
  \/ StreamerCreated
  \/ AudioEvent

SpecHook == Init /\ [][NextHook]_vars

\* The lifecycle of the hook's clients with a run of onToolCall.
NextFollowUp ==
  \/ ApiKeyChanges
  \/ HookConnect
  \/ ConnectResolves
  \/ ConnectFails
  \/ ClientCloses
  \/ HookDisconnect
  \/ HookToolCall
  \/ HookToolCallAnswered
  \/ FollowUpFires

SpecFollowUp == Init /\ [][NextFollowUp]_vars

----------------------------------------------------------------------------
(* Properties of the tool dispatcher (Spec) *)

Terminated == handler.pc \in {"done", "failed", "rejected"}

\* The positions in the sent responses that carry the id.
responsesFor(sess, id) == {n \in 1..Len(sess.sent) : sess.sent[n].id = id}

recognizedTools == {"get_whiteboard_info", "move_task", "update_whiteboard"} \cup jiraToolNames

\* The text a call searches for.
searchTextOf(entry) ==
  IF entry.name = "get_whiteboard_info" THEN entry.args.query ELSE entry.args.taskText

\* The candidates of a move_task call on the snapshot it was given, best first.
rankedFor(seen, args) ==
  sortByScore(candidatesWithScores(seen, args.taskText, args.targetColumn))

\* C1: within one batch, when an earlier call has added an element with
\* update_whiteboard and a later call (get_whiteboard_info or move_task)
\* searches for a text of that element, the later call is executed against a
\* snapshot that holds the element, and get_whiteboard_info returns it.
C1_SnapshotThreading ==
  \A i \in 1..Len(handler.log) : \A j \in 1..Len(handler.log) :
     ( /\ i < j
       /\ handler.log[i].name = "update_whiteboard"
       /\ handler.log[i].args.action = "add"
       /\ ~handler.log[i].result.threw
       /\ handler.log[j].name \in {"get_whiteboard_info", "move_task"} )
     => \A k \in 1..Len(handler.log[i].args.elements) :
          LET added == handler.log[i].args.elements[k]
              later == handler.log[j]
          IN includes(toLowerCase(added.text), toLowerCase(searchTextOf(later)))
             => /\ \E n \in 1..Len(later.seen) : later.seen[n].id = added.id
                /\ later.name = "get_whiteboard_info"
                     => \E n \in 1..Len(later.result.response.ids) :
                           later.result.response.ids[n] = added.id

\* C2: once the handler of a toolcall event has ended, exactly one response
\* carrying the id of each call of the batch has been sent to the session,
\* whatever happened while the call was handled.
C2_ExactlyOneResponse ==
  Terminated =>
    \A k \in 1..Len(handler.batch) :
       Cardinality(responsesFor(session, handler.batch[k].id)) = 1

\* C4: a move_task call whose winning candidate is already in the requested
\* column changes nothing: no newData, nothing queued for the state holder,
\* data and dataRef as before, and the response sent reports that no task
\* was moved.
C4_NoOpMove ==
  [][ (handler.pc = "await" /\ handler'.log # handler.log)
      => LET call == handler.batch[handler.i]
             ranked == IF call.name = "move_task"
                       THEN rankedFor(handler.seen, call.args) ELSE <<>>
             entry == handler'.log[Len(handler'.log)]
         IN (ranked # <<>> /\ getCurrentColumn(ranked[1].task) = call.args.targetColumn)
            => /\ pendingData' = pendingData
               /\ data' = data
               /\ dataRef' = dataRef
               /\ ~entry.result.hasNewData
               /\ entry.published = "no"
               /\ \E n \in responsesFor(session', call.id) :
                     /\ session'.sent[n].response.kind = "not_moved"
                     /\ ~session'.sent[n].response.success ]_vars

C4_Witness ==
  \E i \in 1..Len(handler.log) :
     /\ handler.log[i].name = "move_task"
     /\ LET ranked == rankedFor(handler.log[i].seen, handler.log[i].args)
        IN /\ ranked # <<>>
           /\ getCurrentColumn(ranked[1].task) = handler.log[i].args.targetColumn
     /\ handler.log[i].result.response.kind = "not_moved"
     /\ handler.log[i].published = "no"

C9_UnknownOperation ==
  \A i \in 1..Len(handler.log) :
     handler.log[i].name \notin recognizedTools
     => /\ ~handler.log[i].result.hasNewData
        /\ handler.log[i].published = "no"
        /\ \E n \in responsesFor(session, handler.log[i].id) :
              /\ ~session.sent[n].response.success
              /\ session.sent[n].response.kind = "unknown_tool"
        /\ Terminated =>
             \A j \in (i + 1)..Len(handler.batch) :
                /\ j <= Len(handler.log)
                /\ responsesFor(session, handler.batch[j].id) # {}

\* C10: when processing call i of a batch has thrown, a response with
\* success:false and i's id has been sent, and, once the handler has ended,
\* every later call of the batch has been processed and answered.
C10_FailureIsolated ==
  \A i \in 1..Len(handler.log) :
     handler.log[i].result.threw
     => /\ \E n \in responsesFor(session, handler.log[i].id) :
              ~session.sent[n].response.success
        /\ Terminated =>
             \A j \in (i + 1)..Len(handler.batch) :
                /\ j <= Len(handler.log)
                /\ responsesFor(session, handler.batch[j].id) # {}

----------------------------------------------------------------------------
(* Properties of the recorder (SpecRecorder) *)

\* C3: a start() made while an earlier start() is in flight acquires no
\* device: getUserMedia has been called once for every start() that found no
\* attempt in flight, and not more.
C3_OneAcquisition == recorder.getUserMediaCalls = recorder.freshStarts

----------------------------------------------------------------------------
(* Properties of the matching algorithm (SpecMatch) *)

\* The search of "payment gateway integration" on the board of the two
\* stickies, both in "todo", with another column as target.
PaymentSearch ==
  /\ mLast.taskText = T_PaymentGatewayIntegration
  /\ mLast.before = PaymentBoard
  /\ mLast.targetColumn # "todo"

\* C5 as stated: the search selects the first candidate with a score of at
\* least 70.
C5_ScoreAtLeast70 ==
  PaymentSearch => mLast.best = "p1" /\ ScoreGe(mLast.score, <<70, 1>>)

\* C5: the search selects the first candidate and moves it; its score is 50
\* (two of three search words match: 40, plus 10 for a task that is not in
\* the target column), above the threshold of 20.
C5_FirstCandidateScore50 ==
  PaymentSearch =>
    /\ mLast.found /\ mLast.moved
    /\ mLast.best = "p1"
    /\ mLast.score[1] = 50 * mLast.score[2]
    /\ ScoreGt(mLast.score, <<20, 1>>)

C5_Witness == PaymentSearch /\ mLast.best = "p1" /\ mLast.moved

----------------------------------------------------------------------------
(* Properties of the capture framer (SpecWorklet) *)

\* C6: after n samples in all, floor(n / 2048) chunks have been posted and
\* each has a byte length of 2048 * 2.
C6_ChunkCount ==
  /\ Len(worklet.chunks) = worklet.samples \div BufferLength
  /\ \A k \in 1..Len(worklet.chunks) : byteLength(worklet.chunks[k]) = BufferLength * 2

C6_Witness ==
  /\ Len(worklet.chunks) = 2
  /\ worklet.bufferWriteIndex > 0
  /\ worklet.samples % 128 # 0

----------------------------------------------------------------------------
(* Properties of the session events (SpecTurn) *)

\* C8: when `interrupted` is delivered in an open turn, before its
\* turncomplete, the speaking flag is false right after the handler and
\* stop() has been called on the streamer, which holds no scheduled audio,
\* whatever was scheduled before.
C8_InterruptedStopsSpeaking ==
  [][ turn'.interruptions # turn.interruptions
      => /\ turn.phase = "model"
         /\ ~state'.isSpeaking
         /\ streamer.created
              => /\ streamer'.stopCalls = streamer.stopCalls + 1
                 /\ streamer'.scheduled = 0 ]_vars

C8_Witness ==
  /\ turn.lastEvent = "interrupted"
  /\ turn.flushed >= 2
  /\ streamer.stopCalls >= 1
  /\ streamer.scheduled = 0
  /\ ~state.isSpeaking

----------------------------------------------------------------------------
(* Further properties of the tool dispatcher (Spec) *)

\* C11: when the publication of a call's new board throws, the failure is
\* only logged: the success response of the call is the one response sent
\* for it, no second response is attempted for its id, and the handler goes
\* on with the batch.
C11_PublicationFailureLogged ==
  \A i \in 1..Len(handler.log) :
     handler.log[i].published = "threw"
     => /\ handler.log[i].outcome = "next"
        /\ \A n \in 1..Len(session.violations) : session.violations[n] # handler.log[i].id
        /\ \A n \in responsesFor(session, handler.log[i].id) :
              session.sent[n].response.success

\* The position of the call with the id in the batch (0: none).
batchIndex(id) ==
  IF \E k \in 1..Len(handler.batch) : handler.batch[k].id = id
  THEN CHOOSE k \in 1..Len(handler.batch) : handler.batch[k].id = id
  ELSE 0

\* C12: the calls of a batch are handled in the order received and one
\* after another: while call i awaits processToolCall (its snapshot was just
\* read), every earlier call, and no other, has been handled, its response
\* has been sent and the publication of its new board, if it has one, has
\* been invoked; the responses sent are in the order of the batch.
C12_InOrderOneAtATime ==
  /\ handler.pc = "await"
       => /\ Len(handler.log) = handler.i - 1
          /\ \A k \in 1..Len(handler.log) :
                /\ handler.log[k].id = handler.batch[k].id
                /\ handler.log[k].name = handler.batch[k].name
                /\ responsesFor(session, handler.batch[k].id) # {}
                /\ (handler.log[k].result.hasNewData /\ ~handler.log[k].result.threw)
                     => handler.log[k].published = "yes"
          /\ responsesFor(session, handler.batch[handler.i].id) = {}
  /\ \A m \in 1..Len(session.sent) : \A n \in 1..Len(session.sent) :
        m < n => batchIndex(session.sent[m].id) < batchIndex(session.sent[n].id)

C12_Witness ==
  /\ handler.pc = "await"
  /\ handler.i = 3
  /\ Len(session.sent) = 2
  /\ handler.log[1].published = "yes"
  /\ handler.log[2].name = "get_team_workload"

----------------------------------------------------------------------------
(* Further properties of the recorder (SpecRecorder) *)

\* stop() has been called, every start() that was in flight at that moment
\* has settled, and start() has not been called since.
StoppedAndSettled ==
  /\ recorder.stopCalls > 0
  /\ ~recorder.startedSinceStop
  /\ \A a \in recorder.stopSeen : recorder.attempts[a] \notin InFlight

\* C13: once stop() has been called and every start() in flight at that
\* moment has settled, and until start() is called again, the recorder
\* holds no media stream and `recording` is false.
C13_StopReleases ==
  StoppedAndSettled => recorder.stream = 0 /\ ~recorder.isRecording

----------------------------------------------------------------------------
(* Properties of the hook's operations (SpecHook) *)

\* The clients whose session is connecting or connected.
liveClients == {c \in ClientIds : hook.clients[c] \in {"connecting", "connected"}}

\* C14: at every moment at most one client created by the hook is
\* connecting or connected: replacing the client and reconnecting dispose
\* the previous session first, also one that is still connecting.
C14_OneLiveClient == Cardinality(liveClients) <= 1

\* C17: after disconnect(), and until connect() or startRecording() is
\* called again, isConnected, isRecording and isSpeaking are false and the
\* recorder is not capturing (it is not recording and holds no stream).
C17_DisconnectedStays ==
  hook.sinceDisconnect
  => /\ ~state.isConnected
     /\ ~state.isRecording
     /\ ~state.isSpeaking
     /\ ~recorder.isRecording
     /\ recorder.stream = 0

----------------------------------------------------------------------------
(* Further properties of the session events (SpecTurn) *)

\* C15: between `interrupted` and the `turncomplete` of the interrupted
\* turn, the audio events of that turn are cancelled: nothing is scheduled
\* in the streamer and the speaking flag stays false.
C15_LateAudioCancelled ==
  turn.phase = "interrupted" => ~state.isSpeaking /\ streamer.scheduled = 0

\* C16: the speaking flag is true exactly while a chunk is scheduled and
\* not finished: it falls when the last chunk finishes or stop() is called,
\* and not on turncomplete or text content while chunks are pending.
C16_SpeakingWhileScheduled == state.isSpeaking <=> streamer.scheduled > 0


----------------------------------------------------------------------------
(* Properties of the dispatcher operations applied one after the other       *)

distinctIds(elements) ==
  \A i, j \in 1..Len(elements) : elements[i].id = elements[j].id => i = j

unknownTypeIn(elements) ==
  \E i \in 1..Len(elements) : elements[i].type \notin KnownTypes

\* C18: starting from a board whose element ids are pairwise distinct, the
\* ids of every snapshot that a sequence of dispatcher operations produces
\* are pairwise distinct.
C18_DistinctIds == distinctIds(mBoard)

\* C19: an update_whiteboard call (add, update or replace) with an element
\* of an unknown type is rejected as a whole: the response says
\* success:false, no snapshot is produced and the board stays as it was.
C19_UnknownTypeRejected ==
  ( /\ mLast # NoMove
    /\ mLast.name = "update_whiteboard"
    /\ mLast.args.action \in {"add", "update", "replace"}
    /\ unknownTypeIn(mLast.args.elements) )
  => /\ ~mLast.success
     /\ ~mLast.produced
     /\ mBoard = mLast.before

----------------------------------------------------------------------------
(* Failures of connect() and startRecording()                                *)

\* C21: when connect() fails the hook is not connected afterwards, and when
\* startRecording() fails it is not recording afterwards; the error is set
\* and the failure itself starts no other connect and no other acquisition
\* of the device.
C21_FailureFlipsState ==
  [][ /\ ConnectFails =>
           /\ ~state'.isConnected
           /\ state'.error
           /\ hook'.connectCalls = hook.connectCalls
      /\ HookStartRejects =>
           /\ ~state'.isRecording
           /\ state'.error
           /\ recorder'.getUserMediaCalls = recorder.getUserMediaCalls ]_vars


----------------------------------------------------------------------------
(* Toolcall events that overlap                                              *)

\* C22: at most one call is between reading the snapshot and publishing its
\* result, across all toolcall events: while a call of an earlier event
\* awaits, no call of a second event has read the snapshot or published.
C22_OneCallInFlight == handler.pc = "await" => Len(handler.second) = 0


----------------------------------------------------------------------------
(* The board after a batch                                                   *)

\* The board after the calls i.. of a batch have been applied to it one
\* after the other: a call that produces a snapshot replaces the board, a
\* call that fails or only answers leaves it.
RECURSIVE appliedInOrder(_, _, _)
appliedInOrder(elements, batch, i) ==
  IF i > Len(batch) THEN elements
  ELSE LET call == batch[i]
           result == IF call.name \in jiraToolNames
                     THEN pendingResult(call.args)
                     ELSE processToolCall(elements, call.name, call.args, 0)
       IN appliedInOrder(IF result.hasNewData /\ ~result.threw
                         THEN result.newData ELSE elements,
                         batch, i + 1)

BatchSettled ==
  /\ handler.pc = "done"
  /\ Len(handler.log) = Len(handler.batch)
  /\ pendingData = <<>>
  /\ ~effectDue

\* C25: once a batch has been handled and every queued update of the board
\* is applied, the board is what the operations of the batch give when they
\* are applied in order to the board as it was before the batch.
C25_BatchAppliedInOrder ==
  BatchSettled => data = appliedInOrder(handler.log[1].seen, handler.batch, 1)

\* C26: for every call that produced a new snapshot and was published, the
\* value handed to the state holder is that snapshot.
C26_PublishedIsComputed ==
  \A i \in 1..Len(handler.log) :
     LET entry == handler.log[i]
     IN entry.published = "yes"
          => publish(<<>>, entry, entry.result) = <<entry.result.newData>>


----------------------------------------------------------------------------
(* Further properties of the capture path (SpecWorklet)                      *)

RECURSIVE sumOf(_)
sumOf(lengths) == IF lengths = <<>> THEN 0 ELSE Head(lengths) + sumOf(Tail(lengths))

\* C24: while capture runs no chunk of less than 2048 samples is posted, and
\* once capture has stopped every sample taken has been posted: the k
\* samples that were buffered at the stop (0 < k < 2048) went out as one
\* last chunk.
C24_FinalFlush ==
  /\ \A k \in 1..Len(worklet.chunks) :
        k < Len(worklet.chunks) \/ ~worklet.stopped => worklet.chunks[k] >= BufferLength
  /\ worklet.stopped =>
        /\ sumOf(worklet.chunks) = worklet.samples
        /\ worklet.bufferWriteIndex = 0


----------------------------------------------------------------------------
(* Further properties of the matching algorithm (SpecMatch)                  *)

\* The places, in the board the last move was given, of the stickies that
\* moveTaskByText takes as tasks.
taskPlaces == {k \in 1..Len(mLast.before) :
                 /\ mLast.before[k].type = "sticky"
                 /\ mLast.before[k].y # NoNumber
                 /\ mLast.before[k].y < 650}

\* The total score of the element at place k for the last move.
totalScore(k) ==
  candidateScore(mLast.before[k], trim(toLowerCase(mLast.taskText)), mLast.targetColumn)

eligiblePlaces == {k \in taskPlaces : ScoreGt(totalScore(k), <<20, 1>>)}

\* C27: move_task selects, among the task stickies with a total score above
\* 20, the one with the highest total and, among equal totals, the first in
\* the order of the board; when no total is above 20 nothing is selected and
\* the board stays as it was.
C27_BestFirstSelected ==
  mLast.n > 0 =>
    IF eligiblePlaces = {}
    THEN ~mLast.found /\ ~mLast.moved /\ mBoard = mLast.before
    ELSE /\ mLast.found
         /\ \E k \in eligiblePlaces :
               /\ mLast.before[k].id = mLast.best
               /\ \A j \in eligiblePlaces :
                     /\ ScoreGe(totalScore(k), totalScore(j))
                     /\ ScoreGe(totalScore(j), totalScore(k)) => k <= j

C27_Witness ==
  /\ mLast.n > 0
  /\ mLast.moved
  /\ \E j \in eligiblePlaces, k \in eligiblePlaces :
        /\ j < k
        /\ mLast.before[j].id = mLast.best
        /\ ScoreGe(totalScore(k), totalScore(j))


\* The words of a candidate's text longer than 2 characters.
longWordsOf(taskTextLower) ==
  SelectSeq(split(taskTextLower), LAMBDA word : Len(word) > 2)

\* 60 * m / max(|S|, |C|) with the words of two letters or less dropped on
\* both sides.
overlapScore(searchTextLower, taskTextLower) ==
  LET S == searchWordsOf(searchTextLower)
      C == longWordsOf(taskTextLower)
      m == Len(matchingWordsOf(S, C))
  IN IF m = 0 THEN <<0, 1>> ELSE <<60 * m, Max(Len(S), Len(C))>>

\* C28: when neither text is or contains the other, the base score of a
\* candidate is 60 * m / max(|S|, |C|), S and C being the words of more
\* than two characters of the search text and of the candidate.
C28_OverlapScore ==
  \A k \in taskPlaces :
     LET searchTextLower == trim(toLowerCase(mLast.taskText))
         taskTextLower == textLowerOf(mLast.before[k])
         code == baseScore(searchTextLower, taskTextLower)
         claimed == overlapScore(searchTextLower, taskTextLower)
     IN ( /\ mLast.n > 0
          /\ ~includes(taskTextLower, searchTextLower)
          /\ ~includes(searchTextLower, taskTextLower) )
        => code[1] * claimed[2] = claimed[1] * code[2]


\* The other task stickies of the board the last move was given that are
\* in the target column by the ranges of getCurrentColumn.
othersInTargetColumn ==
  {k \in taskPlaces : /\ mLast.before[k].id # mLast.best
                      /\ getCurrentColumn(mLast.before[k]) = mLast.targetColumn}

\* C29: after a successful move to column c the moved element has the x of
\* c, the color of c and y = 180 + 90 * n, n being the number of other task
\* stickies whose column, by the x-ranges that the search uses, is c.
C29_Placement ==
  (mLast.n > 0 /\ mLast.moved) =>
     \A k \in 1..Len(mBoard) :
        mBoard[k].id = mLast.best =>
           /\ mBoard[k].x = kanbanColumns(mLast.targetColumn)
           /\ mBoard[k].color = columnColor(mLast.targetColumn)
           /\ mBoard[k].y = 180 + 90 * Cardinality(othersInTargetColumn)

\* C30: move_task selects and repositions task stickies only: a header
\* (sprint-header, y = 50) or a summary note (y >= 650) is never selected
\* and keeps its position and color.
C30_OnlyTasksMoved ==
  mLast.n > 0 =>
     \A k \in 1..Len(mLast.before) :
        LET el == mLast.before[k]
        IN (el.id = "sprint-header" \/ el.y < 180 \/ el.y >= 650)
             => /\ mLast.best # el.id
                /\ mBoard[k] = el


----------------------------------------------------------------------------
(* Columns, placement and the frame of a move (SpecMatch)                    *)

\* get_whiteboard_info for column c, every text: does it list the element?
listedIn(elements, id, c) ==
  LET info == getWhiteboardInfo(elements, <<>>, c)
  IN \E k \in 1..Len(info.matchingTasks) : info.matchingTasks[k].id = id

\* C31: the column derived from the fixed x of a column is that column;
\* hence right after a successful move_task to c, get_whiteboard_info for
\* column c lists the moved task and for the other two columns it does not.
C31_OriginInItsColumn ==
  /\ \A c \in Columns :
        getCurrentColumn([x |-> kanbanColumns(c)]) = c
  /\ (mLast.n > 0 /\ mLast.moved) =>
        \A c \in Columns : listedIn(mBoard, mLast.best, c) <=> c = mLast.targetColumn

C31_Witness ==
  /\ mLast.n > 0
  /\ mLast.moved
  /\ mLast.targetColumn = "done"
  /\ listedIn(mBoard, mLast.best, "done")
  /\ ~listedIn(mLast.before, mLast.best, "done")


----------------------------------------------------------------------------
(* The conversion of the samples (SpecConvert)                               *)

\* C32: for every sample s in [-1, 1], the end points included, the value
\* stored is the linearly scaled sample without wrap-around: it is in
\* -32768..32767, it is s * 32768 cut to an integer, and it is monotone in s.
C32_LinearNoWrap ==
  /\ worklet.lastStored >= 0 - 32768
  /\ worklet.lastStored <= 32767
  /\ worklet.lastSample < SampleScale
       => worklet.lastStored = scaled(worklet.lastSample)
  /\ worklet.prevSample <= worklet.lastSample => worklet.prevStored <= worklet.lastStored


----------------------------------------------------------------------------
(* Positions after adds and moves (SpecOps)                                  *)

\* C33: starting from an empty board, after any sequence of add calls with
\* auto-positioned task stickies and move_task calls, no two task stickies
\* have the same (x, y) position.
C33_NoSharedPosition ==
  (opCount > 0 /\ tasksOnlySoFar) =>
     \A i, j \in 1..Len(mBoard) :
        i # j => <<mBoard[i].x, mBoard[i].y>> # <<mBoard[j].x, mBoard[j].y>>


----------------------------------------------------------------------------
(* A move repeated, and the frame of a move (SpecMatch)                      *)

\* The last move repeats the one before it, which had moved a task.
repeatsSuccessfulMove ==
  /\ mLast.n > 1
  /\ mLast.prevMoved
  /\ mLast.taskText = mLast.prevText
  /\ mLast.targetColumn = mLast.prevTarget

changedPlaces == {k \in 1..Len(mBoard) : mBoard[k] # mLast.before[k]}

\* C35: on a board with unique ids, a successful move_task changes only
\* the x, y and color of exactly one element: the number and the order of
\* the elements, every other element, and the id, type and text of the
\* moved element are unchanged.
C35_MoveFrame ==
  (mLast.n > 0 /\ mLast.moved /\ distinctIds(mLast.before)) =>
     /\ Len(mBoard) = Len(mLast.before)
     /\ Cardinality(changedPlaces) = 1
     /\ \A k \in changedPlaces :
           /\ mLast.before[k].id = mLast.best
           /\ mBoard[k].id = mLast.before[k].id
           /\ mBoard[k].type = mLast.before[k].type
           /\ mBoard[k].text = mLast.before[k].text

C35_Witness ==
  /\ mLast.n > 0
  /\ mLast.moved
  /\ distinctIds(mLast.before)
  /\ Len(mLast.before) >= 3
  /\ \E k \in 2..Len(mBoard) :
        /\ mLast.before[k].id = mLast.best
        /\ mBoard[k].x # mLast.before[k].x
        /\ mBoard[k].color # mLast.before[k].color
        /\ mBoard[k - 1] = mLast.before[k - 1]


----------------------------------------------------------------------------
(* The recorder behind the hook's flag (SpecHook)                            *)

\* No startRecording() is awaiting start(), no start() attempt is in
\* flight and no handleStop is waiting for one.
noCallInFlight ==
  /\ \A a \in AttemptIds : ~hook.awaiting[a] /\ recorder.stopAfter[a] = 0
  /\ attemptsInFlight(recorder) = {}
  /\ recorder.starting = 0

\* C36: whenever the hook's isRecording is false and no call is in flight,
\* the AudioRecorder is not capturing (so that no chunk is forwarded to the
\* session) and the microphone is released; in particular after a close or
\* error event of the session.
C36_FlagOffRecorderOff ==
  (~state.isRecording /\ noCallInFlight) =>
     /\ ~recorder.isRecording
     /\ recorder.liveStreams = {}


----------------------------------------------------------------------------
(* A start() that fails (SpecRecorder)                                       *)

\* The recorder holds no media stream and no audio node and is not recording.
holdsNothing(r) ==
  /\ r.stream = 0
  /\ r.liveStreams = {}
  /\ r.source = 0
  /\ ~r.recordingWorklet
  /\ ~r.volumeWorklet
  /\ ~r.isRecording

\* C37: if start() fails at any step (device acquisition, audio context
\* creation, loading of either worklet), then after the returned promise
\* rejects the recorder holds no media stream and no audio node, and
\* `recording` is false.
C37_FailedStartHoldsNothing ==
  [][ \A a \in AttemptIds :
        ( /\ recorder.attempts[a] \in InFlight
          /\ recorder'.attempts[a] = "rejected"
          /\ attemptsInFlight(recorder') = {} )
        => holdsNothing(recorder') ]_vars


----------------------------------------------------------------------------
(* What onToolCall sends, and to which session (SpecFollowUp)                *)

\* C38: every message the hook sends in reaction to a ToolCall (its
\* ToolResponse and the delayed follow-up text) is sent only while the
\* session that delivered the ToolCall is still the current connected
\* session: nothing is sent after disconnect(), nothing to a client created
\* later.
C38_SentToOriginSession ==
  \A k \in 1..Len(hook.texts) :
     /\ hook.texts[k].client = hook.texts[k].fromClient
     /\ hook.texts[k].session = hook.texts[k].fromSession


----------------------------------------------------------------------------
(* The cursor and the content of the chunks (SpecWorklet)                    *)

\* C39: after every process() call the write cursor is in 0..2047, and the
\* chunks posted so far, one after the other, hold the first
\* 2048 * floor(n / 2048) of the n input samples in input order: the k-th
\* chunk holds the samples 2048 (k - 1) + 1 .. 2048 k in its cells 0..2047,
\* so that no sample is lost, duplicated or reordered across the frames.
C39_CursorAndContent ==
  /\ worklet.bufferWriteIndex >= 0
  /\ worklet.bufferWriteIndex < BufferLength
  /\ Len(worklet.contents) = worklet.samples \div BufferLength
  /\ \A k \in 1..Len(worklet.contents) :
        worklet.contents[k] =
           <<[at |-> 0, first |-> BufferLength * (k - 1) + 1, len |-> BufferLength]>>

\* 41 frames of 100 samples: the 21st and the 41st frame go over the end of
\* the buffer.
C39_Witness ==
  /\ worklet.samples = 2 * BufferLength + 4
  /\ Len(worklet.contents) = 2
  /\ worklet.bufferWriteIndex = 4
  /\ worklet.buffer = <<[at |-> 0, first |-> 2 * BufferLength + 1, len |-> 4],
                        [at |-> 4, first |-> BufferLength + 5, len |-> BufferLength - 4]>>

====
